---- MODULE Spec2Model ----
(***************************************************************************)
(* A model of graphql/src/execution/execution.rs: the block-aware caching  *)
(* layer of execute_root_selection_set (the Block-Bounded Cache QUERY_CACHE *)
(* and the Herd Cache QUERY_HERD_CACHE) run by concurrent requests.         *)
(***************************************************************************)
EXTENDS Integers, Sequences, FiniteSets, TLC

(***************************************************************************)
(* Bounds of the model.                                                     *)
(***************************************************************************)
MaxBlockNumber == 2
MaxCacheBlocks == 2
MaxCalls == 3

\* The request handlers that run execute_root_selection_set concurrently.
Procs == {1, 2}

(***************************************************************************)
(* Configuration (lines 37-65).                                             *)
(***************************************************************************)
\* GRAPH_CACHED_SUBGRAPH_IDS: the allow-list; "*" would enable every schema.
CACHED_SUBGRAPH_IDS == {"s1"}

CACHE_ALL == "*" \in CACHED_SUBGRAPH_IDS

\* The "unbounded/latest" sentinel block number of JSONB and metadata queries.
BLOCK_NUMBER_MAX == 2147483647

(***************************************************************************)
(* Block pointers {number, hash}. Two pointers of one number are the two    *)
(* sides of a fork. NoBlock stands for block_ptr = None.                    *)
(***************************************************************************)
NoBlock == [number |-> 0, hash |-> "none"]

ForkBlock == [number |-> 2, hash |-> "b"]

BlockPtrs ==
    {[number |-> n, hash |-> "a"] : n \in 1..MaxBlockNumber} \cup {ForkBlock}

SentinelBlock == [number |-> BLOCK_NUMBER_MAX, hash |-> "a"]

(***************************************************************************)
(* Requests: what a caller hands to execute_root_selection_set through ctx, *)
(* selection_set and block_ptr. deadline is ctx.deadline: "none" or "some". *)
(***************************************************************************)
Request(schema_id, variables, block_ptr, deadline) ==
    [schema_id |-> schema_id, variables |-> variables, fragments |-> "f0",
     selection_set |-> "selA", block_ptr |-> block_ptr, deadline |-> deadline]

Requests ==
    {Request("s1", "v1", b, "none") : b \in BlockPtrs \cup {NoBlock, SentinelBlock}}
    \cup {Request("s1", "v1", [number |-> 1, hash |-> "a"], "some"),
          Request("s1", "v2", [number |-> 2, hash |-> "a"], "none"),
          Request("s2", "v1", [number |-> 1, hash |-> "a"], "none")}

NoRequest ==
    [schema_id |-> "none", variables |-> "none", fragments |-> "none",
     selection_set |-> "none", block_ptr |-> NoBlock, deadline |-> "none"]

(***************************************************************************)
(* cache_key: the stable hash of HashableQuery. The hash is collision       *)
(* resistant and fed component by component, so it is modelled by the       *)
(* tuple of the five components it is fed with.                             *)
(***************************************************************************)
HashableQuery(query_schema_id, query_variables, query_fragments, selection_set, block_ptr) ==
    [query_schema_id |-> query_schema_id,
     query_variables |-> query_variables,
     query_fragments |-> query_fragments,
     selection_set |-> selection_set,
     block_ptr |-> block_ptr]

cache_key(r, block_ptr) ==
    HashableQuery(r.schema_id, r.variables, r.fragments, r.selection_set, block_ptr)

\* key = None
NoKey == HashableQuery("none", "none", "none", "none", NoBlock)

(***************************************************************************)
(* QueryResponse = Result<BTreeMap, Vec<QueryExecutionError>>. The data of  *)
(* a success names the question the resolver answered.                      *)
(***************************************************************************)
Ok(data) == [ok |-> TRUE, data |-> data, errors |-> <<>>]

Err(errors) == [ok |-> FALSE, data |-> NoKey, errors |-> errors]

NoResponse == [ok |-> FALSE, data |-> NoKey, errors |-> <<"none">>]

\* What the resolver bound to the request's block answers to the request.
Answer(r) == cache_key(r, r.block_ptr)

(***************************************************************************)
(* execute_root_selection_set_uncached, by its outcome: a Timeout when the  *)
(* deadline check of a field group finds the deadline past, the resolver's  *)
(* error when prefetch or a field fails, the answer otherwise.              *)
(***************************************************************************)
execute_root_selection_set_uncached(r, timedOut, resolverFails) ==
    IF timedOut THEN Err(<<"Timeout">>)
    ELSE IF resolverFails THEN Err(<<"ResolverError">>)
    ELSE Ok(Answer(r))

(***************************************************************************)
(* MaybeCached<QueryResponse>                                               *)
(***************************************************************************)
NotCached(t) == [variant |-> "NotCached", response |-> t]

Cached(t) == [variant |-> "Cached", response |-> t]

NoResult == [variant |-> "none", response |-> NoResponse]

(***************************************************************************)
(* The caching decision of lines 285-290.                                   *)
(***************************************************************************)
CachingEnabled(r) == CACHE_ALL \/ r.schema_id \in CACHED_SUBGRAPH_IDS

\* A variant of Eligible without the BLOCK_NUMBER_MAX test of line 290.
EligibleWithSentinel(r) ==
    /\ CachingEnabled(r)
    /\ r.block_ptr # NoBlock

Eligible(r) ==
    /\ CachingEnabled(r)
    /\ r.block_ptr # NoBlock
    /\ r.block_ptr.number # BLOCK_NUMBER_MAX

(***************************************************************************)
(* The Block-Bounded Cache: a VecDeque<CacheByBlock>, front first. Each     *)
(* CacheByBlock is [block, cache], cache a map from QueryHash to response.  *)
(***************************************************************************)
\* A variant of FindBlock that compares block numbers, not block pointers.
FindBlockByNumber(cache, block_ptr) ==
    LET found == {i \in 1..Len(cache) : cache[i].block.number = block_ptr.number}
    IN  IF found = {} THEN 0 ELSE CHOOSE i \in found : \A j \in found : i <= j

\* cache.iter().position(|c| c.block == block_ptr), 0 when there is none
FindBlock(cache, block_ptr) ==
    LET found == {i \in 1..Len(cache) : cache[i].block = block_ptr}
    IN  IF found = {} THEN 0 ELSE CHOOSE i \in found : \A j \in found : i <= j

\* Lines 298-302: is the response cached?
IsHit(cache, block_ptr, k) ==
    LET i == FindBlock(cache, block_ptr)
    IN  i # 0 /\ k \in DOMAIN cache[i].cache

CachedResponse(cache, block_ptr, k) ==
    cache[FindBlock(cache, block_ptr)].cache[k]

\* A variant of should_insert that refuses a block of the front entry's number.
should_insert_strict(cache, block_ptr) ==
    IF Len(cache) = 0 THEN TRUE
    ELSE Head(cache).block.number < block_ptr.number

\* A variant of should_insert without the guard against historical blocks.
should_insert_always(cache, block_ptr) == TRUE

\* Lines 335-339
should_insert(cache, block_ptr) ==
    IF Len(cache) = 0 THEN TRUE
    ELSE Head(cache).block.number <= block_ptr.number

\* A variant of PushFront that never pops the back entry.
PushFrontNoEvict(cache, cap, block_ptr, k, cached) ==
    <<[block |-> block_ptr, cache |-> (k :> cached)]>> \o cache

\* Lines 342-350: pop_back at capacity, then push_front
PushFront(cache, cap, block_ptr, k, cached) ==
    LET kept == IF Len(cache) = cap THEN SubSeq(cache, 1, Len(cache) - 1)
                ELSE cache
    IN  <<[block |-> block_ptr, cache |-> (k :> cached)]>> \o kept

\* A variant of CacheBlocksEnabled that lets a capacity of 0 through.
CacheBlocksEnabledAtZero(cap) == cap >= 0

\* Line 330: *QUERY_CACHE_BLOCKS > 0
CacheBlocksEnabled(cap) == cap > 0

\* A variant of InsertCache that does not look for an entry of the block first.
InsertCacheNoFind(cache, cap, block_ptr, k, cached) ==
    IF CacheBlocksEnabled(cap) /\ should_insert(cache, block_ptr)
    THEN PushFront(cache, cap, block_ptr, k, cached)
    ELSE cache

\* Lines 327-352: the insertion under the write lock
InsertCache(cache, cap, block_ptr, k, cached) ==
    LET i == FindBlock(cache, block_ptr)
    IN  IF i # 0
        THEN [cache EXCEPT ![i].cache = (k :> cached) @@ @]
        ELSE IF CacheBlocksEnabled(cap) /\ should_insert(cache, block_ptr)
        THEN PushFront(cache, cap, block_ptr, k, cached)
        ELSE cache

\* A variant of ShouldStore without the is_ok() test of line 324.
ShouldStoreAnyResult(res, k, block_ptr) ==
    /\ res.variant = "Cached"
    /\ k # NoKey
    /\ block_ptr # NoBlock

\* Lines 320-324: only a success that came through the herd cache is stored
ShouldStore(res, k, block_ptr) ==
    /\ res.variant = "Cached"
    /\ k # NoKey
    /\ block_ptr # NoBlock
    /\ res.response.ok

(***************************************************************************)
(* State.                                                                   *)
(***************************************************************************)
VARIABLES
    query_cache_blocks, \* QUERY_CACHE_BLOCKS, read once from the environment
    query_cache,        \* QUERY_CACHE: the ring buffer, front first
    lock,               \* the RwLock around QUERY_CACHE
    herd,               \* QUERY_HERD_CACHE: the in-flight computations by key
    pc,                 \* where each request is in execute_root_selection_set
    req,                \* the request each caller is running (or ran last)
    key,                \* its cache_key, NoKey when it is not cache-eligible
    result,             \* the MaybeCached it holds
    calls,              \* how many calls have been made so far
    hist,               \* per call: what happened to it (history)
    query,              \* one uncached execution: its root selection set
    deadline,           \* its ctx.deadline: "none" or "some"
    expired,            \* a deadline check has found the deadline past
    frames,             \* the execute_selection_set_to_map calls in progress
    cstack,             \* the collect_fields calls in progress
    returned,           \* the execute_selection_set_to_map call that returned last
    outcome,            \* the QueryResponse of the outermost call
    root                \* the execute_root_selection_set_uncached call in progress

\* The state of the caching layer and the state of one uncached execution
cacheVars == <<query_cache_blocks, query_cache, lock, herd, pc, req, key, result, calls, hist>>

execVars == <<query, deadline, expired, frames, cstack, returned, outcome, root>>

vars == <<query_cache_blocks, query_cache, lock, herd, pc, req, key, result, calls, hist,
          query, deadline, expired, frames, cstack, returned, outcome, root>>

\* No call of execute_root_selection_set_uncached is modelled step by step
NoRoot ==
    [pc |-> "none", data_set |-> <<>>, intro_set |-> <<>>, values |-> <<>>,
     prefetches |-> 0, trace |-> <<>>, response |-> Err(<<>>)]

NoSeq == [same |-> FALSE, response |-> NoResponse, insertable |-> FALSE]

NoHist ==
    [origin |-> "none", conc |-> {}, noEntry |-> FALSE, solo |-> FALSE,
     insertable |-> FALSE, seq |-> NoSeq, errBefore |-> FALSE, newExec |-> FALSE,
     stored |-> "none"]

Active(p) == pc[p] \notin {"idle", "done"}

Init ==
    /\ query_cache_blocks \in 0..MaxCacheBlocks
    /\ query_cache = <<>>
    /\ lock = [readers |-> {}, writer |-> 0]
    /\ herd = <<>>
    /\ pc = [p \in Procs |-> "idle"]
    /\ req = [p \in Procs |-> NoRequest]
    /\ key = [p \in Procs |-> NoKey]
    /\ result = [p \in Procs |-> NoResult]
    /\ hist = [p \in Procs |-> NoHist]
    /\ calls = 0
    /\ query = <<>>
    /\ deadline = "none"
    /\ expired = FALSE
    /\ frames = <<>>
    /\ cstack = <<>>
    /\ returned = <<>>
    /\ outcome = NoResponse
    /\ root = NoRoot

(***************************************************************************)
(* History kept for the claims: it never guards or changes the program.     *)
(***************************************************************************)
\* Would a success for block_ptr be kept by the cache as it is now?
Insertable(cache, cap, block_ptr) ==
    \/ \E i \in 1..Len(cache) : cache[i].block = block_ptr
    \/ cap > 0 /\ (cache = <<>> \/ cache[1].block.number <= block_ptr.number)

\* What the insertion of a success for block_ptr does to the cache as it is now
StoreOutcome(cache, cap, block_ptr) ==
    IF \E i \in 1..Len(cache) : cache[i].block = block_ptr THEN "added"
    ELSE IF cap = 0 THEN "disabled"
    ELSE IF cache # <<>> /\ block_ptr.number < cache[1].block.number THEN "rejected"
    ELSE IF Len(cache) = cap THEN "evicting"
    ELSE "pushed"

\* An earlier request of this fingerprint completed with errors.
ErroredBefore(k) ==
    \E q \in Procs : pc[q] = "done" /\ key[q] = k /\ ~result[q].response.ok

\* p's last call, when it ran alone, is over and was this very request
SeqAtStart(p, r, alone) ==
    IF alone /\ pc[p] = "done" /\ hist[p].solo /\ req[p] = r
    THEN [same |-> TRUE, response |-> result[p].response, insertable |-> hist[p].insertable]
    ELSE NoSeq

\* The history when p starts a call: p's own record starts anew, a call in
\* progress learns that p overlaps it, and of a finished call only where its
\* result came from and which calls overlapped it stay on record.
HistAtStart(p, r) ==
    LET others == {q \in Procs \ {p} : Active(q)}
        k == cache_key(r, r.block_ptr)
    IN  [q \in Procs |->
            IF q = p
            THEN [origin |-> "none",
                  conc |-> others,
                  noEntry |-> Eligible(r) /\ ~IsHit(query_cache, r.block_ptr, k),
                  solo |-> others = {},
                  insertable |-> others = {} /\ Eligible(r)
                      /\ Insertable(query_cache, query_cache_blocks, r.block_ptr),
                  seq |-> SeqAtStart(p, r, others = {}),
                  errBefore |-> Eligible(r) /\ k \notin DOMAIN herd /\ ErroredBefore(k),
                  newExec |-> FALSE,
                  stored |-> "none"]
            ELSE IF q \in others
            THEN [hist[q] EXCEPT !.conc = @ \cup {p}, !.solo = FALSE,
                                 !.insertable = FALSE, !.seq = NoSeq]
            ELSE [NoHist EXCEPT !.origin = hist[q].origin, !.conc = hist[q].conc]]

(***************************************************************************)
(* execute_root_selection_set, step by step.                                *)
(***************************************************************************)
\* Lines 275-292: a caller enters with a request; the key is hashed outside the lock
Start(p, r) ==
    /\ pc[p] \in {"idle", "done"}
    /\ calls < MaxCalls
    /\ calls' = calls + 1
    /\ req' = [req EXCEPT ![p] = r]
    /\ key' = [key EXCEPT ![p] = IF Eligible(r) THEN cache_key(r, r.block_ptr) ELSE NoKey]
    /\ pc' = [pc EXCEPT ![p] = IF Eligible(r) THEN "rdlock" ELSE "exec"]
    /\ result' = [result EXCEPT ![p] = NoResult]
    /\ hist' = HistAtStart(p, r)
    /\ UNCHANGED <<query_cache_blocks, query_cache, lock, herd, execVars>>

\* Line 295: QUERY_CACHE.read()
ReadLock(p) ==
    /\ pc[p] = "rdlock"
    /\ lock.writer = 0
    /\ lock' = [lock EXCEPT !.readers = @ \cup {p}]
    /\ pc' = [pc EXCEPT ![p] = "lookup"]
    /\ UNCHANGED <<query_cache_blocks, query_cache, herd, req, key, result, calls, hist,
                   execVars>>

\* The lookup with a read guard that lives on after a miss
LookupHoldingGuard(p) ==
    /\ pc[p] = "lookup"
    /\ IF IsHit(query_cache, req[p].block_ptr, key[p])
       THEN LET res == Cached(CachedResponse(query_cache, req[p].block_ptr, key[p]))
            IN  /\ result' = [result EXCEPT ![p] = res]
                /\ pc' = [pc EXCEPT ![p] = "done"]
                /\ hist' = [hist EXCEPT ![p].origin = "hit"]
                /\ lock' = [lock EXCEPT !.readers = @ \ {p}]
       ELSE /\ pc' = [pc EXCEPT ![p] = "herd"]
            /\ UNCHANGED <<result, hist, lock>>
    /\ UNCHANGED <<calls, query_cache_blocks, query_cache, herd, req, key, execVars>>

\* Lines 297-305: the lookup; the read guard is dropped on both ways out
Lookup(p) ==
    /\ pc[p] = "lookup"
    /\ lock' = [lock EXCEPT !.readers = @ \ {p}]
    /\ IF IsHit(query_cache, req[p].block_ptr, key[p])
       THEN LET res == Cached(CachedResponse(query_cache, req[p].block_ptr, key[p]))
            IN  /\ result' = [result EXCEPT ![p] = res]
                /\ pc' = [pc EXCEPT ![p] = "done"]
                /\ hist' = [hist EXCEPT ![p].origin = "hit"]
       ELSE /\ pc' = [pc EXCEPT ![p] = "herd"]
            /\ UNCHANGED <<result, hist>>
    /\ UNCHANGED <<calls, query_cache_blocks, query_cache, herd, req, key, execVars>>

(***************************************************************************)
(* The Herd Cache (QueryCache::cached_query): one in-flight slot per key,   *)
(* created when a computation starts, removed once the computation is done  *)
(* and every waiter has received the shared result.                         *)
(***************************************************************************)
HerdInFlight(h, k) == k \in DOMAIN h

HerdBegin(h, k) == (k :> [done |-> FALSE, response |-> NoResponse, waiters |-> {}]) @@ h

HerdJoin(h, k, p) == [h EXCEPT ![k].waiters = @ \cup {p}]

HerdRemove(h, k) == [x \in DOMAIN h \ {k} |-> h[x]]

\* The computing caller registers its result for the waiters.
HerdPublish(h, k, response) ==
    IF h[k].waiters = {} THEN HerdRemove(h, k)
    ELSE [h EXCEPT ![k].done = TRUE, ![k].response = response]

\* A waiter has received the shared result.
HerdLeave(h, k, p) ==
    IF h[k].waiters = {p} THEN HerdRemove(h, k)
    ELSE [h EXCEPT ![k].waiters = @ \ {p}]

\* Every active call of this fingerprint sees an uncached execution begin.
NoteNewExec(h, k) ==
    [q \in Procs |-> IF Active(q) /\ key[q] = k THEN [h[q] EXCEPT !.newExec = TRUE] ELSE h[q]]

\* Lines 309-313: cached_query(key, ...): join the computation in flight, or begin one
HerdEnter(p) ==
    /\ pc[p] = "herd"
    /\ IF HerdInFlight(herd, key[p])
       THEN /\ herd' = HerdJoin(herd, key[p], p)
            /\ pc' = [pc EXCEPT ![p] = "wait"]
            /\ hist' = hist
       ELSE /\ herd' = HerdBegin(herd, key[p])
            /\ pc' = [pc EXCEPT ![p] = "exec"]
            /\ hist' = NoteNewExec(hist, key[p])
    /\ UNCHANGED <<calls, query_cache_blocks, query_cache, lock, req, key, result, execVars>>

\* Where a call goes once it holds its result (lines 319-324, 356)
AfterResult(p, res) ==
    IF ShouldStore(res, key[p], req[p].block_ptr) THEN "wrlock" ELSE "done"

\* Lines 310-312, 315: the uncached execution ends
ExecFinish(p) ==
    /\ pc[p] = "exec"
    /\ \E timedOut \in (IF req[p].deadline = "some" THEN BOOLEAN ELSE {FALSE}),
          resolverFails \in BOOLEAN :
          LET response == execute_root_selection_set_uncached(req[p], timedOut, resolverFails)
              res == IF key[p] # NoKey THEN Cached(response) ELSE NotCached(response)
          IN  /\ result' = [result EXCEPT ![p] = res]
              /\ herd' = IF key[p] # NoKey THEN HerdPublish(herd, key[p], response) ELSE herd
              /\ pc' = [pc EXCEPT ![p] = AfterResult(p, res)]
    /\ hist' = [hist EXCEPT ![p].origin = "own"]
    /\ UNCHANGED <<calls, query_cache_blocks, query_cache, lock, req, key, execVars>>

\* Line 310: a waiter receives the shared result
Wait(p) ==
    /\ pc[p] = "wait"
    /\ herd[key[p]].done
    /\ LET res == Cached(herd[key[p]].response)
       IN  /\ result' = [result EXCEPT ![p] = res]
           /\ pc' = [pc EXCEPT ![p] = AfterResult(p, res)]
    /\ herd' = HerdLeave(herd, key[p], p)
    /\ hist' = [hist EXCEPT ![p].origin = "shared"]
    /\ UNCHANGED <<calls, query_cache_blocks, query_cache, lock, req, key, execVars>>

\* Line 325: QUERY_CACHE.write()
WriteLock(p) ==
    /\ pc[p] = "wrlock"
    /\ lock.writer = 0
    /\ lock.readers = {}
    /\ lock' = [lock EXCEPT !.writer = p]
    /\ pc' = [pc EXCEPT ![p] = "insert"]
    /\ UNCHANGED <<query_cache_blocks, query_cache, herd, req, key, result, calls, hist,
                   execVars>>

\* Lines 327-356: the insertion; the write guard is dropped on return
Insert(p) ==
    /\ pc[p] = "insert"
    /\ query_cache' = InsertCache(query_cache, query_cache_blocks, req[p].block_ptr,
                                  key[p], result[p].response)
    /\ lock' = [lock EXCEPT !.writer = 0]
    /\ pc' = [pc EXCEPT ![p] = "done"]
    /\ hist' = [hist EXCEPT ![p].stored =
                    StoreOutcome(query_cache, query_cache_blocks, req[p].block_ptr)]
    /\ UNCHANGED <<query_cache_blocks, herd, req, key, result, calls, execVars>>

Next ==
    \E p \in Procs :
        \/ \E r \in Requests : Start(p, r)
        \/ ReadLock(p)
        \/ Lookup(p)
        \/ HerdEnter(p)
        \/ ExecFinish(p)
        \/ Wait(p)
        \/ WriteLock(p)
        \/ Insert(p)

Spec == Init /\ [][Next]_vars

(***************************************************************************)
(* The uncached execution: collect_fields, execute_selection_set_to_map,    *)
(* execute_field and complete_value, run on one query at a time.            *)
(*                                                                          *)
(* The schema. s::Type is <<"Named", n>>, <<"NonNull", t>> or <<"List", t>>.*)
(***************************************************************************)
MaxSelections == 2

NamedType(name) == <<"Named", name>>

NonNullType(inner_type) == <<"NonNull", inner_type>>

ListType(inner_type) == <<"List", inner_type>>

ObjectTypes == {"Query", "User"}

\* sast::get_named_type, by the kind of the type definition it finds
get_named_type(name) ==
    CASE name \in ObjectTypes -> "Object"
      [] name = "Node" -> "Interface"
      [] name = "Thing" -> "Union"
      [] name \in {"String", "ID"} -> "Scalar"
      [] OTHER -> "None"

\* ObjectType.implements_interfaces
implements_interfaces(object_type) == IF object_type = "User" THEN {"Node"} ELSE {}

\* UnionType.types
union_types(name) == IF name = "Thing" THEN {"User"} ELSE {}

NoField == <<"None", "">>

\* INTROSPECTION_QUERY_TYPE: the root type of the introspection schema
INTROSPECTION_QUERY_TYPE == "__IntrospectionQuery"

\* introspection::is_introspection_field
is_introspection_field(name) == name \in {"__schema", "__type"}

\* sast::get_field: the declared type of a field of an object type
get_field(object_type, name) ==
    CASE object_type = "Query" /\ name = "name" -> NamedType("String")
      [] object_type = "Query" /\ name = "id" -> NonNullType(NamedType("ID"))
      [] object_type = "Query" /\ name = "tags" -> ListType(NonNullType(NamedType("String")))
      [] object_type = "Query" /\ name = "node" -> NamedType("Node")
      [] object_type = "Query" /\ name = "owner" -> NonNullType(NamedType("User"))
      [] object_type = "User" /\ name = "name" -> NamedType("String")
      [] object_type = "User" /\ name = "id" -> NonNullType(NamedType("ID"))
      [] object_type = INTROSPECTION_QUERY_TYPE /\ name = "__schema" ->
            NonNullType(NamedType("String"))
      [] OTHER -> NoField

(***************************************************************************)
(* The query document. A selection is a q::Selection; selection sets and    *)
(* fields refer to their selections by the names of this table. The         *)
(* arguments of a field are the names of those that fail their coercion.    *)
(***************************************************************************)
Directive(name, value) == [name |-> name, value |-> value]

Field(position, alias, name, arguments, directives, selection_set) ==
    [kind |-> "Field", position |-> position, alias |-> alias, name |-> name,
     arguments |-> arguments, directives |-> directives, selection_set |-> selection_set,
     fragment_name |-> "", type_condition |-> ""]

FragmentSpread(fragment_name) ==
    [kind |-> "FragmentSpread", position |-> 0, alias |-> "", name |-> "",
     arguments |-> <<>>, directives |-> <<>>, selection_set |-> <<>>,
     fragment_name |-> fragment_name, type_condition |-> ""]

InlineFragment(type_condition, selection_set) ==
    [kind |-> "InlineFragment", position |-> 0, alias |-> "", name |-> "",
     arguments |-> <<>>, directives |-> <<>>, selection_set |-> selection_set,
     fragment_name |-> "", type_condition |-> type_condition]

\* ctx.query.variables
Variables == [on |-> TRUE, off |-> FALSE]

Selection(n) ==
    CASE n = "name" -> Field(1, "", "name", <<>>, <<>>, <<>>)
      [] n = "id" -> Field(2, "", "id", <<>>, <<>>, <<>>)
      [] n = "bogus" -> Field(3, "", "bogus", <<>>, <<>>, <<>>)
      [] n = "bogus@skip" ->
            Field(4, "", "bogus", <<>>, <<Directive("skip", "true")>>, <<>>)
      [] n = "n2:name(bad)" -> Field(5, "n2", "name", <<"first", "where">>, <<>>, <<>>)
      [] n = "node" -> Field(7, "", "node", <<>>, <<>>, <<"node.id">>)
      [] n = "node.id" -> Field(8, "", "id", <<>>, <<>>, <<>>)
      [] n = "owner" -> Field(9, "", "owner", <<>>, <<>>, <<"owner.name", "owner...U">>)
      [] n = "owner.name" ->
            Field(10, "", "name", <<>>, <<Directive("skip", "$off")>>, <<>>)
      [] n = "owner...U" -> FragmentSpread("U")
      [] n = "U.id" -> Field(11, "", "id", <<>>, <<>>, <<>>)
      [] n = "...A" -> FragmentSpread("A")
      [] n = "A.name" -> Field(12, "", "name", <<>>, <<>>, <<>>)
      [] n = "A...B" -> FragmentSpread("B")
      [] n = "...B" -> FragmentSpread("B")
      [] n = "B.id" -> Field(13, "", "id", <<>>, <<>>, <<>>)
      [] n = "B...A" -> FragmentSpread("A")
      [] n = "on Query...S" -> FragmentSpread("S")
      [] n = "S.name" -> Field(14, "", "name", <<>>, <<>>, <<>>)
      [] n = "S...S" -> FragmentSpread("S")
      [] n = "on Query...U" -> FragmentSpread("U")
      [] n = "on Query" ->
            InlineFragment("Query", <<"on Query.bogus@include", "on Query.tags",
                                      "on Query...S", "on Query...U">>)
      [] n = "on Query.bogus@include" ->
            Field(15, "", "bogus", <<>>, <<Directive("include", "$off")>>, <<>>)
      [] n = "on Query.tags" -> Field(16, "", "tags", <<>>, <<>>, <<>>)
      [] n = "__schema" -> Field(17, "", "__schema", <<>>, <<>>, <<>>)
      [] n = "name:__schema" -> Field(18, "name", "__schema", <<>>, <<>>, <<>>)

\* The selections a root selection set is made of
RootSelections ==
    {"name", "id", "bogus", "bogus@skip", "n2:name(bad)", "node", "owner",
     "...A", "...B", "on Query"}

FragmentDefinition(type_condition, selection_set) ==
    [type_condition |-> type_condition, selection_set |-> selection_set]

\* ctx.query.fragments: A and B spread each other, S spreads itself.
Fragments ==
    [A |-> FragmentDefinition("Query", <<"A.name", "A...B">>),
     B |-> FragmentDefinition("Query", <<"B.id", "B...A">>),
     S |-> FragmentDefinition("Query", <<"S.name", "S...S">>),
     U |-> FragmentDefinition("User", <<"U.id">>)]

\* Query::get_fragment
get_fragment(name) == IF name \in DOMAIN Fragments THEN {Fragments[name]} ELSE {}

\* The root selection sets: up to MaxSelections different selections in any order
RootSelectionSets ==
    {ss \in UNION {[1..n -> RootSelections] : n \in 1..MaxSelections} :
        \A i, j \in DOMAIN ss : i # j => ss[i] # ss[j]}

(***************************************************************************)
(* collect_fields (lines 464-566). A call is a record of its locals; the    *)
(* recursion is the stack cstack, innermost call last.                      *)
(***************************************************************************)
\* The value of a directive's "if" argument under the variables
DirectiveValue(d) ==
    CASE d.value = "true" -> TRUE
      [] d.value = "false" -> FALSE
      [] d.value = "$on" -> Variables.on
      [] d.value = "$off" -> Variables.off

\* qast::skip_selection
skip_selection(selection) ==
    \E i \in DOMAIN selection.directives :
        selection.directives[i].name = "skip" /\ DirectiveValue(selection.directives[i])

\* qast::include_selection
include_selection(selection) ==
    \A i \in DOMAIN selection.directives :
        selection.directives[i].name = "include" => DirectiveValue(selection.directives[i])

\* The filter without the @skip / @include test
IsSelectedAlways(n) == TRUE

\* Lines 478-479: the filter on the selections of a selection set
IsSelected(n) == ~skip_selection(Selection(n)) /\ include_selection(Selection(n))

\* Lines 473-481: the selections the two loops go through, in order
RECURSIVE SelectedItems(_)
SelectedItems(selection_sets) ==
    IF selection_sets = <<>> THEN <<>>
    ELSE SelectSeq(Head(selection_sets), IsSelected) \o SelectedItems(Tail(selection_sets))

\* qast::get_response_key
get_response_key(field) == IF field.alias # "" THEN field.alias ELSE field.name

\* An entry that keeps the fields it has and takes no more
EntryKeepFirst(grouped_fields, response_key, group) ==
    IF \E i \in DOMAIN grouped_fields : grouped_fields[i].key = response_key
    THEN grouped_fields
    ELSE Append(grouped_fields, [key |-> response_key, fields |-> group])

\* grouped_fields.entry(response_key).or_default().append(group)
EntryAppend(grouped_fields, response_key, group) ==
    IF \E i \in DOMAIN grouped_fields : grouped_fields[i].key = response_key
    THEN [i \in DOMAIN grouped_fields |->
            IF grouped_fields[i].key = response_key
            THEN [grouped_fields[i] EXCEPT !.fields = @ \o group]
            ELSE grouped_fields[i]]
    ELSE Append(grouped_fields, [key |-> response_key, fields |-> group])

\* Lines 528-534, 553-558: every group of the fragment goes to the group of its key
RECURSIVE MergeGroups(_, _)
MergeGroups(grouped_fields, fragment_grouped_field_set) ==
    IF fragment_grouped_field_set = <<>> THEN grouped_fields
    ELSE MergeGroups(EntryAppend(grouped_fields, Head(fragment_grouped_field_set).key,
                                 Head(fragment_grouped_field_set).fields),
                     Tail(fragment_grouped_field_set))

\* Lines 569-597
does_fragment_type_apply(object_type, fragment_type) ==
    CASE get_named_type(fragment_type) = "Object" -> object_type = fragment_type
      [] get_named_type(fragment_type) = "Interface" ->
            fragment_type \in implements_interfaces(object_type)
      [] get_named_type(fragment_type) = "Union" -> object_type \in union_types(fragment_type)
      [] OTHER -> FALSE

\* A call of collect_fields as it starts (lines 470-471); fragment names the
\* fragment definition whose selection set the call collects, if any.
CollectCall(selection_sets, visited_fragments, fragment) ==
    [items |-> SelectedItems(selection_sets), i |-> 1,
     visited_fragments |-> visited_fragments, grouped_fields |-> <<>>,
     fragment |-> fragment]

Top(stack) == stack[Len(stack)]

SetTop(stack, x) == [stack EXCEPT ![Len(stack)] = x]

Pop(stack) == SubSeq(stack, 1, Len(stack) - 1)

\* A spread that leaves the set of visited fragments as it was
VisitNothing(visited_fragments, fragment_name) == visited_fragments

\* Line 497
Visit(visited_fragments, fragment_name) == visited_fragments \cup {fragment_name}

\* Lines 492-537: a fragment spread met by the call c, the innermost of stack
CollectSpread(stack, c, spread, object_type) ==
    IF spread.fragment_name \notin c.visited_fragments
    THEN LET visited == Visit(c.visited_fragments, spread.fragment_name)
             caller == [c EXCEPT !.i = @ + 1, !.visited_fragments = visited]
             applying == {f \in get_fragment(spread.fragment_name) :
                            does_fragment_type_apply(object_type, f.type_condition)}
         IN  IF applying # {}
             THEN LET fragment == CHOOSE f \in applying : TRUE
                  IN  Append(SetTop(stack, caller),
                             CollectCall(<<fragment.selection_set>>, visited,
                                         spread.fragment_name))
             ELSE SetTop(stack, caller)
    ELSE SetTop(stack, [c EXCEPT !.i = @ + 1])

\* Lines 539-560: an inline fragment met by the call c
CollectInline(stack, c, fragment, object_type) ==
    LET caller == [c EXCEPT !.i = @ + 1]
        applies == IF fragment.type_condition # ""
                   THEN does_fragment_type_apply(object_type, fragment.type_condition)
                   ELSE TRUE
    IN  IF applies
        THEN Append(SetTop(stack, caller),
                    CollectCall(<<fragment.selection_set>>, c.visited_fragments, ""))
        ELSE SetTop(stack, caller)

\* Lines 481-562: the innermost call takes its next selection
CollectSelection ==
    /\ cstack # <<>>
    /\ Top(cstack).i <= Len(Top(cstack).items)
    /\ LET c == Top(cstack)
           n == c.items[c.i]
           selection == Selection(n)
           object_type == Top(frames).object_type
       IN  cstack' =
             CASE selection.kind = "Field" ->
                    SetTop(cstack, [c EXCEPT !.i = @ + 1,
                                             !.grouped_fields =
                                                EntryAppend(@, get_response_key(selection), <<n>>)])
               [] selection.kind = "FragmentSpread" ->
                    CollectSpread(cstack, c, selection, object_type)
               [] selection.kind = "InlineFragment" ->
                    CollectInline(cstack, c, selection, object_type)
    /\ UNCHANGED <<cacheVars, query, deadline, expired, frames, returned, outcome, root>>

\* Line 565: the innermost call returns grouped_fields, to the collect_fields
\* call that inlines it (lines 519-534, 546-558) or to line 391
CollectReturn ==
    /\ cstack # <<>>
    /\ Top(cstack).i > Len(Top(cstack).items)
    /\ IF Len(cstack) > 1
       THEN /\ cstack' = SetTop(Pop(cstack),
                                [cstack[Len(cstack) - 1] EXCEPT !.grouped_fields =
                                    MergeGroups(@, Top(cstack).grouped_fields)])
            /\ frames' = frames
       ELSE /\ cstack' = <<>>
            /\ frames' = SetTop(frames, [Top(frames) EXCEPT !.grouped_field_set =
                                            Top(cstack).grouped_fields])
    /\ UNCHANGED <<cacheVars, query, deadline, expired, returned, outcome, root>>

(***************************************************************************)
(* q::Value and QueryExecutionError.                                        *)
(***************************************************************************)
Value(t, v, items, map) == [t |-> t, v |-> v, items |-> items, map |-> map]

Null == Value("Null", "", <<>>, <<>>)

StringValue(v) == Value("String", v, <<>>, <<>>)

IntValue(v) == Value("Int", v, <<>>, <<>>)

List(items) == Value("List", "", items, <<>>)

\* An object as the resolver returns it: v is the object type the resolver
\* would resolve it to, "" when it can tell none
ResolvedObject(v) == Value("Object", v, <<>>, <<>>)

\* q::Value::Object(map)
Object(map) == Value("Object", "", <<>>, map)

QueryExecutionError(kind, position, type, name, value) ==
    [kind |-> kind, position |-> position, type |-> type, name |-> name, value |-> value]

Timeout == QueryExecutionError("Timeout", 0, "", "", Null)

UnknownField(position, type, name) ==
    QueryExecutionError("UnknownField", position, type, name, Null)

EmptySelectionSet(type) == QueryExecutionError("EmptySelectionSet", 0, type, "", Null)

NonNullError(position, name) == QueryExecutionError("NonNullError", position, "", name, Null)

ListValueError(position, name) == QueryExecutionError("ListValueError", position, "", name, Null)

ScalarCoercionError(position, name, value, type) ==
    QueryExecutionError("ScalarCoercionError", position, type, name, value)

AbstractTypeError(type) == QueryExecutionError("AbstractTypeError", 0, type, "", Null)

NamedTypeError(type) == QueryExecutionError("NamedTypeError", 0, type, "", Null)

Unimplemented(feature) == QueryExecutionError("Unimplemented", 0, "", feature, Null)

\* What coercion::coerce_input_value reports for an argument it rejects
InvalidArgumentError(position, name) ==
    QueryExecutionError("InvalidArgumentError", position, "", name, Null)

\* What a resolver reports when it fails
ResolverError == QueryExecutionError("ResolverError", 0, "", "", Null)

(***************************************************************************)
(* The resolver. Which of its methods resolve_field_value calls for a field *)
(* type (lines 624-792), and what the method may answer.                    *)
(***************************************************************************)
Answer_Ok(value) == [ok |-> TRUE, value |-> value, errors |-> <<>>]

Answer_Err(errors) == [ok |-> FALSE, value |-> Null, errors |-> errors]

RECURSIVE resolver_call_for_list_type(_)
resolver_call_for_list_type(inner_type) ==
    IF inner_type[1] = "NonNull" THEN resolver_call_for_list_type(inner_type[2])
    ELSE IF inner_type[1] = "Named"
    THEN CASE get_named_type(inner_type[2]) \in {"Object", "Interface"} -> "resolve_objects"
           [] get_named_type(inner_type[2]) = "Scalar" -> "resolve_scalar_values"
           [] OTHER -> "none"
    ELSE "none"

RECURSIVE resolver_call(_)
resolver_call(field_type) ==
    IF field_type[1] = "NonNull" THEN resolver_call(field_type[2])
    ELSE IF field_type[1] = "Named"
    THEN CASE get_named_type(field_type[2]) = "Object" -> "resolve_object"
           [] get_named_type(field_type[2]) = "Interface" -> "resolve_object (interface)"
           [] get_named_type(field_type[2]) = "Scalar" -> "resolve_scalar_value"
           [] OTHER -> "none"
    ELSE resolver_call_for_list_type(field_type[2])

\* The answers of the resolver's methods: a scalar of either kind or none, an
\* object of the object type asked for, of an object type of the interface
\* asked for or of no type the resolver can tell, a list or not a list
ResolverAnswers(method) ==
    CASE method = "resolve_scalar_value" ->
            {Answer_Ok(Null), Answer_Ok(StringValue("s")), Answer_Ok(IntValue("7"))}
      [] method = "resolve_object" ->
            {Answer_Ok(Null), Answer_Ok(ResolvedObject("User")), Answer_Err(<<ResolverError>>)}
      [] method = "resolve_object (interface)" ->
            {Answer_Ok(Null), Answer_Ok(ResolvedObject("User")), Answer_Ok(ResolvedObject("")),
             Answer_Err(<<ResolverError>>)}
      [] method = "resolve_scalar_values" ->
            {Answer_Ok(List(<<StringValue("s")>>)), Answer_Ok(List(<<Null, Null>>)),
             Answer_Ok(StringValue("s")), Answer_Err(<<ResolverError>>)}
      [] OTHER -> {Answer_Err(<<>>)}

\* Lines 716-792
RECURSIVE resolve_field_value_for_list_type(_, _)
resolve_field_value_for_list_type(inner_type, answer) ==
    IF inner_type[1] = "NonNull" THEN resolve_field_value_for_list_type(inner_type[2], answer)
    ELSE IF inner_type[1] = "Named"
    THEN CASE get_named_type(inner_type[2]) = "None" ->
                Answer_Err(<<NamedTypeError(inner_type[2])>>)
           [] get_named_type(inner_type[2]) = "Union" -> Answer_Err(<<Unimplemented("unions")>>)
           [] OTHER -> answer
    ELSE Answer_Err(<<Unimplemented("nested list types")>>)

\* Lines 667-713
resolve_field_value_for_named_type(type_name, answer) ==
    CASE get_named_type(type_name) = "None" -> Answer_Err(<<NamedTypeError(type_name)>>)
      [] get_named_type(type_name) = "Union" -> Answer_Err(<<Unimplemented("unions")>>)
      [] OTHER -> answer

\* Lines 624-664
RECURSIVE resolve_field_value(_, _)
resolve_field_value(field_type, answer) ==
    CASE field_type[1] = "NonNull" -> resolve_field_value(field_type[2], answer)
      [] field_type[1] = "Named" -> resolve_field_value_for_named_type(field_type[2], answer)
      [] field_type[1] = "List" -> resolve_field_value_for_list_type(field_type[2], answer)

\* Lines 943-979: one error for every argument that fails its coercion
coerce_argument_values(field) ==
    IF field.arguments = <<>> THEN Answer_Ok(Null)
    ELSE Answer_Err([i \in DOMAIN field.arguments |->
                        InvalidArgumentError(field.position, field.arguments[i])])

\* Value::coerce to a scalar type: a String is a String or an ID, an Int an ID
coerce(value, scalar_type) ==
    \/ value.t = "String"
    \/ value.t = "Int" /\ scalar_type = "ID"

\* Resolver::resolve_abstract_type: the object type of the value, if it tells one
resolve_abstract_type(abstract_type, object_value) ==
    {t \in ObjectTypes :
        /\ t = object_value.v
        /\ abstract_type \in implements_interfaces(t) \/ t \in union_types(abstract_type)}

(***************************************************************************)
(* complete_value (lines 795-923). It ends in a value, in errors, or in the *)
(* execution of the selection sets of the fields against an object type,    *)
(* whose result is then the result of complete_value. The schema has no     *)
(* enums and no lists of objects.                                           *)
(***************************************************************************)
Completed(value) == [tag |-> "ok", value |-> value, errors |-> <<>>, object_type |-> ""]

Failed(errors) == [tag |-> "err", value |-> Null, errors |-> errors, object_type |-> ""]

ExecuteSelectionSet(object_type) ==
    [tag |-> "object", value |-> Null, errors |-> <<>>, object_type |-> object_type]

\* A non-null wrapper that passes a Null on
NonNullUnchecked(field, inner) == inner

\* Lines 804-813
NonNull(field, inner) ==
    IF inner.tag = "ok" /\ inner.value = Null
    THEN Failed(<<NonNullError(field.position, field.name)>>)
    ELSE inner

\* An abstract type that resolves to nothing and is completed as a Null
complete_abstract_lenient(name, resolved_value) ==
    IF resolve_abstract_type(name, resolved_value) = {} THEN Completed(Null)
    ELSE ExecuteSelectionSet(CHOOSE t \in resolve_abstract_type(name, resolved_value) : TRUE)

\* Lines 893-915 and 926-940
complete_abstract(name, resolved_value) ==
    IF resolve_abstract_type(name, resolved_value) = {} THEN Failed(<<AbstractTypeError(name)>>)
    ELSE ExecuteSelectionSet(CHOOSE t \in resolve_abstract_type(name, resolved_value) : TRUE)

\* Lines 852-921
complete_named(field, name, resolved_value) ==
    CASE get_named_type(name) = "Scalar" ->
            IF coerce(resolved_value, name) THEN Completed(resolved_value)
            ELSE Failed(<<ScalarCoercionError(field.position, field.name, resolved_value, name)>>)
      [] get_named_type(name) = "Object" -> ExecuteSelectionSet(name)
      [] get_named_type(name) \in {"Interface", "Union"} -> complete_abstract(name, resolved_value)

RECURSIVE complete_value(_, _, _)
RECURSIVE complete_values(_, _, _)
\* Lines 828-837: the elements of a list, one after the other
complete_values(field, inner_type, values) ==
    IF values = <<>> THEN [values |-> <<>>, errors |-> <<>>]
    ELSE LET first == complete_value(field, inner_type, Head(values))
             rest == complete_values(field, inner_type, Tail(values))
         IN  [values |-> <<first.value>> \o rest.values, errors |-> first.errors \o rest.errors]

complete_value(field, field_type, resolved_value) ==
    IF field_type[1] = "NonNull"
    THEN NonNull(field, complete_value(field, field_type[2], resolved_value))
    ELSE IF resolved_value = Null THEN Completed(resolved_value)
    ELSE IF field_type[1] = "List"
    THEN IF resolved_value.t = "List"
         THEN LET done == complete_values(field, field_type[2], resolved_value.items)
              IN  IF done.errors = <<>> THEN Completed(List(done.values))
                  ELSE Failed(done.errors)
         ELSE Failed(<<ListValueError(field.position, field.name)>>)
    ELSE complete_named(field, field_type[2], resolved_value)

\* Lines 600-621
execute_field(field, field_type, answer) ==
    IF ~coerce_argument_values(field).ok THEN Failed(coerce_argument_values(field).errors)
    ELSE IF ~resolve_field_value(field_type, answer).ok
    THEN Failed(resolve_field_value(field_type, answer).errors)
    ELSE complete_value(field, field_type, resolve_field_value(field_type, answer).value)

(***************************************************************************)
(* execute_selection_set_to_map (lines 376-461). A call is a record of its  *)
(* locals; the recursion through complete_value is the stack frames,        *)
(* innermost call last. log is history: the groups the loop has been        *)
(* through, with the resolver's answer and the errors of each.              *)
(***************************************************************************)
\* The entries of a pre-fetched object: "prefetch:" + response key, or a field name
PrefetchEntry(response_key) == <<"prefetch:", response_key>>

NameEntry(name) == <<"", name>>

\* Option::None for a field value
NoValue == Value("None", "", <<>>, <<>>)

\* BTreeMap::remove
MapRemove(map, k) == [x \in DOMAIN map \ {k} |-> map[x]]

\* Lines 382-386: the entries of the pre-fetched value, none when there is no value
PrefetchedObject(prefetched_value) == prefetched_value.map

\* The fields of all groups, group after group (line 397)
RECURSIVE AllFields(_)
AllFields(grouped_field_set) ==
    IF grouped_field_set = <<>> THEN <<>>
    ELSE Head(grouped_field_set).fields \o AllFields(Tail(grouped_field_set))

\* Lines 394-403: the names of the fields that the groups hold more than once
multiple_response_keys(grouped_field_set) ==
    LET fields == AllFields(grouped_field_set)
    IN  {Selection(fields[i]).name : i \in
            {i \in DOMAIN fields :
                \E j \in DOMAIN fields : j < i /\ Selection(fields[j]).name = Selection(fields[i]).name}}

\* Lines 418-433: the value the pre-fetched object has for the group, and the
\* object as the lookup leaves it; how is history: which way the value was taken
FieldValue(o, grouped_field_set, response_key, name) ==
    IF PrefetchEntry(response_key) \in DOMAIN o
    THEN [value |-> o[PrefetchEntry(response_key)],
          object |-> MapRemove(o, PrefetchEntry(response_key)), how |-> "prefetch"]
    ELSE IF name \notin multiple_response_keys(grouped_field_set)
    THEN [value |-> IF NameEntry(name) \in DOMAIN o THEN o[NameEntry(name)] ELSE NoValue,
          object |-> MapRemove(o, NameEntry(name)), how |-> "remove"]
    ELSE [value |-> IF NameEntry(name) \in DOMAIN o THEN o[NameEntry(name)] ELSE NoValue,
          object |-> o, how |-> "clone"]

\* The call with the field value of its next group taken; received is
\* history: the field values the groups were executed with
TakeFieldValue(f, response_key, name) ==
    LET taken == FieldValue(f.prefetched_object, f.grouped_field_set, response_key, name)
    IN  [f EXCEPT !.prefetched_object = taken.object,
                  !.received = Append(@, [key |-> response_key, name |-> name,
                                          value |-> taken.value, how |-> taken.how,
                                          before |-> f.prefetched_object])]

ExecCall(object_type, selection_sets, prefetched_value) ==
    [object_type |-> object_type, selection_sets |-> selection_sets,
     prefetched_value |-> prefetched_value,
     prefetched_object |-> PrefetchedObject(prefetched_value), received |-> <<>>,
     grouped_field_set |-> <<>>, idx |-> 1,
     errors |-> <<>>, result_map |-> <<>>, halted |-> FALSE, log |-> <<>>]

NoAnswer == Answer_Err(<<>>)

LogEntry(response_key, answer, errors) ==
    [key |-> response_key, answer |-> answer, errors |-> errors]

\* Ord for String on the response keys of the query document: byte by byte
StringOrder == <<"__schema", "bogus", "id", "n2", "name", "node", "owner", "tags">>

\* BTreeMap::keys / iter: the keys of a map in the order the map yields them,
\* which is the order of the keys themselves
BTreeMapKeys(map) == SelectSeq(StringOrder, LAMBDA k : k \in DOMAIN map)

\* BTreeMap::insert
MapInsert(map, k, v) == [x \in DOMAIN map \cup {k} |-> IF x = k THEN v ELSE map[x]]

\* The deadline check as one that records the Timeout and goes on to the next group
TimedOutContinuing(f) == [f EXCEPT !.errors = Append(@, Timeout), !.idx = @ + 1]

\* Lines 408-411: the deadline is past
TimedOut(f) == [f EXCEPT !.errors = Append(@, Timeout), !.halted = TRUE]

\* Lines 435-437: the group has its value
GroupOk(f, response_key, v, answer) ==
    [f EXCEPT !.result_map = MapInsert(@, response_key, v), !.idx = @ + 1,
              !.log = Append(@, LogEntry(response_key, answer, <<>>))]

\* A group in error that ends the loop
GroupErrHalting(f, response_key, e, answer) ==
    [f EXCEPT !.errors = @ \o e, !.halted = TRUE,
              !.log = Append(@, LogEntry(response_key, answer, e))]

\* Lines 438-440 and 443-447: the group has errors
GroupErr(f, response_key, e, answer) ==
    [f EXCEPT !.errors = @ \o e, !.idx = @ + 1,
              !.log = Append(@, LogEntry(response_key, answer, e))]

\* The end of the call without the test for an empty map
SelectionSetResponseNoEmptyTest(f) ==
    IF f.errors = <<>> THEN Ok(f.result_map) ELSE Err(f.errors)

\* Lines 451-460
SelectionSetResponse(f) ==
    IF f.errors = <<>> /\ DOMAIN f.result_map # {} THEN Ok(f.result_map)
    ELSE IF f.errors = <<>> THEN Err(<<EmptySelectionSet(f.object_type)>>)
    ELSE Err(f.errors)

\* Lines 407-408: what a deadline check can find; time only moves on
DeadlineChecks ==
    IF deadline = "none" THEN {FALSE} ELSE IF expired THEN {TRUE} ELSE {TRUE, FALSE}

\* fields.iter().map(|f| &f.selection_set)
SelectionSetsOf(fields) == [i \in DOMAIN fields |-> Selection(fields[i]).selection_set]

\* Lines 406-449: the innermost call takes its next group
ExecuteGroup ==
    /\ frames # <<>>
    /\ cstack = <<>>
    /\ root.pc # "collect"
    /\ ~Top(frames).halted
    /\ Top(frames).idx <= Len(Top(frames).grouped_field_set)
    /\ \E past \in DeadlineChecks :
        LET f == Top(frames)
            response_key == f.grouped_field_set[f.idx].key
            fields == f.grouped_field_set[f.idx].fields
            field == Selection(fields[1])
            field_type == get_field(f.object_type, field.name)
            method == IF coerce_argument_values(field).ok THEN resolver_call(field_type)
                      ELSE "none"
        IN  /\ expired' = (expired \/ past)
            /\ IF past
               THEN /\ frames' = SetTop(frames, TimedOut(f))
                    /\ cstack' = cstack
               ELSE IF field_type = NoField
               THEN /\ frames' = SetTop(frames,
                            GroupErr(f, response_key,
                                     <<UnknownField(field.position, f.object_type, field.name)>>,
                                     NoAnswer))
                    /\ cstack' = cstack
               ELSE \E answer \in ResolverAnswers(method) :
                        LET c == execute_field(field, field_type, answer)
                            g == TakeFieldValue(f, response_key, field.name)
                        IN  CASE c.tag = "ok" ->
                                    /\ frames' = SetTop(frames,
                                            GroupOk(g, response_key, c.value, answer))
                                    /\ cstack' = cstack
                              [] c.tag = "err" ->
                                    /\ frames' = SetTop(frames,
                                            GroupErr(g, response_key, c.errors, answer))
                                    /\ cstack' = cstack
                              [] c.tag = "object" ->
                                    /\ frames' = Append(SetTop(frames, g),
                                            ExecCall(c.object_type, SelectionSetsOf(fields),
                                                     answer.value))
                                    /\ cstack' = <<CollectCall(SelectionSetsOf(fields), {}, "")>>
    /\ UNCHANGED <<cacheVars, query, deadline, returned, outcome, root>>

\* Lines 451-460: the innermost call returns, to complete_value and the group
\* of its caller (lines 886-915, 434-441) or to the caller of the execution
FinishSelectionSet ==
    /\ frames # <<>>
    /\ cstack = <<>>
    /\ root.pc # "collect"
    /\ Top(frames).halted \/ Top(frames).idx > Len(Top(frames).grouped_field_set)
    /\ LET f == Top(frames)
           response == SelectionSetResponse(f)
       IN  /\ returned' = [call |-> f, response |-> response, depth |-> Len(frames)]
           /\ IF Len(frames) > 1
              THEN LET caller == frames[Len(frames) - 1]
                       response_key == caller.grouped_field_set[caller.idx].key
                       answer == Answer_Ok(f.prefetched_value)
                   IN  /\ frames' = SetTop(Pop(frames),
                                IF response.ok
                                THEN GroupOk(caller, response_key, Object(response.data), answer)
                                ELSE GroupErr(caller, response_key, response.errors, answer))
                       /\ outcome' = outcome
              ELSE /\ frames' = <<>>
                   /\ outcome' = response
    /\ UNCHANGED <<cacheVars, query, deadline, expired, cstack, root>>

\* No response yet: an empty error list, which no call returns
NoOutcome == Err(<<>>)

NoReturn == [call |-> ExecCall("", <<>>, Null), response |-> NoOutcome, depth |-> 0]

\* One execution: of any root selection set against the root type, with or
\* without a deadline; the caching layer is left out of it.
ExecInit ==
    /\ query \in RootSelectionSets
    /\ deadline \in {"none", "some"}
    /\ expired = FALSE
    /\ frames = <<ExecCall("Query", <<query>>, Null)>>
    /\ cstack = <<CollectCall(<<query>>, {}, "")>>
    /\ returned = NoReturn
    /\ outcome = NoOutcome
    /\ root = NoRoot
    /\ query_cache_blocks = 0
    /\ query_cache = <<>>
    /\ lock = [readers |-> {}, writer |-> 0]
    /\ herd = <<>>
    /\ pc = [p \in Procs |-> "idle"]
    /\ req = [p \in Procs |-> NoRequest]
    /\ key = [p \in Procs |-> NoKey]
    /\ result = [p \in Procs |-> NoResult]
    /\ hist = [p \in Procs |-> NoHist]
    /\ calls = 0

ExecNext ==
    \/ CollectSelection
    \/ CollectReturn
    \/ ExecuteGroup
    \/ FinishSelectionSet

ExecSpec == ExecInit /\ [][ExecNext]_vars

\* One call of collect_fields by itself: of any root selection set against any
\* object type of the schema.
CollectInit ==
    /\ query \in RootSelectionSets
    /\ deadline = "none"
    /\ expired = FALSE
    /\ \E object_type \in ObjectTypes : frames = <<ExecCall(object_type, <<query>>, Null)>>
    /\ cstack = <<CollectCall(<<query>>, {}, "")>>
    /\ returned = NoReturn
    /\ outcome = NoOutcome
    /\ root = NoRoot
    /\ query_cache_blocks = 0
    /\ query_cache = <<>>
    /\ lock = [readers |-> {}, writer |-> 0]
    /\ herd = <<>>
    /\ pc = [p \in Procs |-> "idle"]
    /\ req = [p \in Procs |-> NoRequest]
    /\ key = [p \in Procs |-> NoKey]
    /\ result = [p \in Procs |-> NoResult]
    /\ hist = [p \in Procs |-> NoHist]
    /\ calls = 0

CollectNext ==
    \/ CollectSelection
    \/ CollectReturn

\* The call is one thread that runs on until it returns.
CollectLive == CollectInit /\ [][CollectNext]_vars /\ WF_vars(CollectNext)

(***************************************************************************)
(* execute_root_selection_set_uncached (lines 220-272), step by step. Its   *)
(* collect_fields call and the two execute_selection_set_to_map calls run   *)
(* on cstack and frames; root.pc is where the function is. trace is         *)
(* history: the calls it has made.                                          *)
(***************************************************************************)
\* The selections a root selection set of a whole query is made of
RootQuerySelections ==
    {"name", "n2:name(bad)", "...A", "bogus@skip", "__schema", "name:__schema"}

RootQueries ==
    {ss \in UNION {[1..n -> RootQuerySelections] : n \in 1..MaxSelections} :
        \A i, j \in DOMAIN ss : i # j => ss[i] # ss[j]}

\* What the resolver's prefetch may answer: an error, nothing, or an object
\* with an entry for the field name, with or without a "prefetch:" entry
PrefetchAnswers ==
    {Answer_Err(<<ResolverError>>),
     Answer_Ok(Null),
     Answer_Ok(Object(NameEntry("name") :> StringValue("p"))),
     Answer_Ok(Object((NameEntry("name") :> StringValue("p"))
                        @@ (PrefetchEntry("n2") :> StringValue("q"))))}

\* A split that looks at every field's own name, not at the group's first field
SplitFieldsOneByOne(grouped_field_set, introspection) ==
    SelectSeq(AllFields(grouped_field_set),
              LAMBDA n : is_introspection_field(Selection(n).name) = introspection)

\* Lines 238-249: the fields of the groups whose first field is, or is not, an
\* introspection field
RECURSIVE SplitFields(_, _)
SplitFields(grouped_field_set, introspection) ==
    IF grouped_field_set = <<>> THEN <<>>
    ELSE (IF is_introspection_field(Selection(Head(grouped_field_set).fields[1]).name)
                = introspection
          THEN Head(grouped_field_set).fields
          ELSE <<>>) \o SplitFields(Tail(grouped_field_set), introspection)

\* BTreeMap::extend
MapExtend(map, other) ==
    [x \in DOMAIN map \cup DOMAIN other |-> IF x \in DOMAIN other THEN other[x] ELSE map[x]]

\* Lines 263-268: the values of the introspection pass go into those of the data pass
IntroValues(values, response) == MapExtend(values, response.data)

\* Lines 238-249: collect_fields has returned; the groups are split
RootSplit ==
    /\ root.pc = "collect"
    /\ cstack = <<>>
    /\ Len(frames) = 1
    /\ LET data_set == SplitFields(frames[1].grouped_field_set, FALSE)
           intro_set == SplitFields(frames[1].grouped_field_set, TRUE)
       IN  root' = [root EXCEPT !.data_set = data_set, !.intro_set = intro_set,
                                !.pc = IF data_set = <<>> THEN "values" ELSE "prefetch"]
    /\ frames' = <<>>
    /\ UNCHANGED <<cacheVars, query, deadline, expired, cstack, returned, outcome>>

\* A prefetch that is left out: the data pass starts with no pre-fetched value
PrefetchLeftOut ==
    /\ root.pc = "prefetch"
    /\ root' = [root EXCEPT !.pc = "data", !.trace = Append(@, "data")]
    /\ frames' = <<ExecCall("Query", <<root.data_set>>, Null)>>
    /\ cstack' = <<CollectCall(<<root.data_set>>, {}, "")>>
    /\ UNCHANGED <<cacheVars, query, deadline, expired, returned, outcome>>

\* Lines 255-256: prefetch; on an error the function returns it, else the data
\* pass starts with the pre-fetched value
Prefetch ==
    /\ root.pc = "prefetch"
    /\ \E initial_data \in PrefetchAnswers :
        IF initial_data.ok
        THEN /\ root' = [root EXCEPT !.pc = "data", !.prefetches = @ + 1,
                                     !.trace = @ \o <<"prefetch", "data">>]
             /\ frames' = <<ExecCall("Query", <<root.data_set>>, initial_data.value)>>
             /\ cstack' = <<CollectCall(<<root.data_set>>, {}, "")>>
        ELSE /\ root' = [root EXCEPT !.pc = "done", !.prefetches = @ + 1,
                                     !.trace = Append(@, "prefetch"),
                                     !.response = Err(initial_data.errors)]
             /\ UNCHANGED <<frames, cstack>>
    /\ UNCHANGED <<cacheVars, query, deadline, expired, returned, outcome>>

\* Lines 256-257: the data pass has returned; its errors are returned, its
\* mapping is the values
DataPassReturn ==
    /\ root.pc = "data"
    /\ frames = <<>>
    /\ root' = IF outcome.ok
               THEN [root EXCEPT !.pc = "values", !.values = outcome.data,
                                 !.trace = Append(@, "data returned")]
               ELSE [root EXCEPT !.pc = "done", !.response = Err(outcome.errors),
                                 !.trace = Append(@, "data returned")]
    /\ UNCHANGED <<cacheVars, query, deadline, expired, frames, cstack, returned, outcome>>

\* Lines 260-268: there are introspection fields; the introspection pass starts
IntroPass ==
    /\ root.pc = "values"
    /\ root.intro_set # <<>>
    /\ root' = [root EXCEPT !.pc = "intro", !.trace = Append(@, "intro")]
    /\ frames' = <<ExecCall(INTROSPECTION_QUERY_TYPE, <<root.intro_set>>, Null)>>
    /\ cstack' = <<CollectCall(<<root.intro_set>>, {}, "")>>
    /\ UNCHANGED <<cacheVars, query, deadline, expired, returned, outcome>>

\* Lines 263-268: the introspection pass has returned; its errors are
\* returned, its mapping extends the values
IntroPassReturn ==
    /\ root.pc = "intro"
    /\ frames = <<>>
    /\ root' = IF outcome.ok
               THEN [root EXCEPT !.pc = "return", !.values = IntroValues(@, outcome),
                                 !.trace = Append(@, "intro returned")]
               ELSE [root EXCEPT !.pc = "done", !.response = Err(outcome.errors),
                                 !.trace = Append(@, "intro returned")]
    /\ UNCHANGED <<cacheVars, query, deadline, expired, frames, cstack, returned, outcome>>

\* Line 271
RootResponse(values) == Ok(values)

\* Lines 260, 271: no introspection pass is left to run; Ok(values)
RootReturn ==
    /\ \/ root.pc = "values" /\ root.intro_set = <<>>
       \/ root.pc = "return"
    /\ root' = [root EXCEPT !.pc = "done", !.response = RootResponse(root.values)]
    /\ UNCHANGED <<cacheVars, query, deadline, expired, frames, cstack, returned, outcome>>

\* One call of execute_root_selection_set_uncached: of any root selection set,
\* with or without a deadline; the caching layer is left out of it.
RootInit ==
    /\ query \in RootQueries
    /\ deadline \in {"none", "some"}
    /\ expired = FALSE
    /\ frames = <<ExecCall("Query", <<query>>, Null)>>
    /\ cstack = <<CollectCall(<<query>>, {}, "")>>
    /\ returned = NoReturn
    /\ outcome = NoOutcome
    /\ root = [NoRoot EXCEPT !.pc = "collect"]
    /\ query_cache_blocks = 0
    /\ query_cache = <<>>
    /\ lock = [readers |-> {}, writer |-> 0]
    /\ herd = <<>>
    /\ pc = [p \in Procs |-> "idle"]
    /\ req = [p \in Procs |-> NoRequest]
    /\ key = [p \in Procs |-> NoKey]
    /\ result = [p \in Procs |-> NoResult]
    /\ hist = [p \in Procs |-> NoHist]
    /\ calls = 0

RootNext ==
    \/ CollectSelection
    \/ CollectReturn
    \/ RootSplit
    \/ Prefetch
    \/ ExecuteGroup
    \/ FinishSelectionSet
    \/ DataPassReturn
    \/ IntroPass
    \/ IntroPassReturn
    \/ RootReturn

RootSpec == RootInit /\ [][RootNext]_vars

(***************************************************************************)
(* Claims.                                                                  *)
(***************************************************************************)
Done(p) == pc[p] = "done"

\* The calls of p and q overlap in time, carry one fingerprint, and neither
\* found a Block-Bounded Cache entry for it when it started.
ConcurrentSameFingerprint(p, q) ==
    /\ p # q
    /\ q \in hist[p].conc
    /\ p \in hist[q].conc
    /\ key[p] # NoKey
    /\ key[p] = key[q]
    /\ hist[p].noEntry
    /\ hist[q].noEntry

\* C1 (as claimed): of concurrent calls with one fingerprint and no cache entry
\* at their start, exactly one runs the uncached execution and all of them
\* receive the same result. Stated for the calls that end in a success.
C1_ExactlyOneExecution ==
    \A p, q \in Procs :
        /\ Done(p) /\ Done(q) /\ ConcurrentSameFingerprint(p, q)
        /\ result[p].response.ok /\ result[q].response.ok
        => /\ ~(hist[p].origin = "own" /\ hist[q].origin = "own")
           /\ result[p].response = result[q].response

\* The request of p's call is cache-eligible as the claims word it: caching is
\* enabled for its schema and its block pointer is a concrete one.
ConcreteCached(r) ==
    /\ CACHE_ALL \/ r.schema_id \in CACHED_SUBGRAPH_IDS
    /\ r.block_ptr # NoBlock
    /\ r.block_ptr.number # BLOCK_NUMBER_MAX

\* p's call is the second of two calls with the same request made in sequence:
\* the first ran alone and completed, and no other call ran since.
SecondInSequence(p) == Done(p) /\ hist[p].seq.same /\ ConcreteCached(req[p])

\* C2 (as claimed): the second of two identical calls in sequence returns the
\* result of the first and is a Block-Bounded Cache hit.
C2_SecondCallIsHit ==
    \A p \in Procs :
        SecondInSequence(p)
            => /\ hist[p].origin = "hit"
               /\ result[p].response = hist[p].seq.response

\* C2 (amended): when the first call returned a success and the cache could
\* keep it (capacity > 0, and the block is in the buffer or not older than the
\* front entry), the second call is a hit returning the identical response.
C2_SecondCallIsHitWhenKept ==
    \A p \in Procs :
        SecondInSequence(p) /\ hist[p].seq.response.ok /\ hist[p].seq.insertable
            => /\ hist[p].origin = "hit"
               /\ result[p].response = hist[p].seq.response
               /\ result[p].variant = "Cached"

C2_Witness ==
    \E p \in Procs :
        /\ SecondInSequence(p) /\ hist[p].seq.response.ok /\ hist[p].seq.insertable
        /\ hist[p].origin = "hit"

\* C3: a hit is the answer to the request's own question at the request's own
\* block, and every response in the buffer is filed under the block and the
\* fingerprint it answers.
C3_HitIsOwnBlockAndFingerprint ==
    /\ \A p \in Procs :
        Done(p) /\ hist[p].origin = "hit"
            => /\ result[p].response.ok
               /\ result[p].response.data.block_ptr = req[p].block_ptr
               /\ result[p].response.data.query_schema_id = req[p].schema_id
               /\ result[p].response.data.query_variables = req[p].variables
               /\ result[p].response.data.query_fragments = req[p].fragments
               /\ result[p].response.data.selection_set = req[p].selection_set
    /\ \A i \in 1..Len(query_cache) :
        \A k \in DOMAIN query_cache[i].cache :
            /\ k.block_ptr = query_cache[i].block
            /\ query_cache[i].cache[k].ok => query_cache[i].cache[k].data = k

\* The query cached under block b was asked again at another block b2 and was
\* not served from b's entry.
C3_Witness ==
    \E p, q \in Procs :
        /\ Done(p) /\ Done(q) /\ p # q
        /\ hist[p].stored \in {"pushed", "evicting", "added"}
        /\ IsHit(query_cache, req[p].block_ptr, key[p])
        /\ req[q].variables = req[p].variables
        /\ req[q].schema_id = req[p].schema_id
        /\ req[q].block_ptr # req[p].block_ptr
        /\ key[q] # NoKey
        /\ hist[q].noEntry
        /\ hist[q].origin = "own"
        /\ result[q].response.ok
        /\ result[q].response # result[p].response

\* C4 (as claimed): requests with equal fingerprints yield the same uncached
\* result (a failure of the resolver aside).
C4_EqualFingerprintSameResult ==
    \A p, q \in Procs :
        /\ Done(p) /\ Done(q)
        /\ key[p] # NoKey /\ key[p] = key[q]
        /\ hist[p].origin = "own" /\ hist[q].origin = "own"
        /\ result[p].response.errors # <<"ResolverError">>
        /\ result[q].response.errors # <<"ResolverError">>
        => result[p].response = result[q].response

\* C5: every response in the Block-Bounded Cache is a success, and a call whose
\* result is an error list never goes on to the insertion.
C5_OnlySuccessesCached ==
    /\ \A i \in 1..Len(query_cache) :
        \A k \in DOMAIN query_cache[i].cache : query_cache[i].cache[k].ok
    /\ \A p \in Procs :
        pc[p] \in {"wrlock", "insert"} => result[p].response.ok
    /\ \A p \in Procs :
        Done(p) /\ ~result[p].response.ok => hist[p].stored = "none"

\* An error shared through the Herd Cache was returned and nothing was stored.
C5_Witness ==
    \E p \in Procs :
        /\ Done(p) /\ hist[p].origin = "shared" /\ ~result[p].response.ok
        /\ hist[p].stored = "none"
        /\ \A i \in 1..Len(query_cache) : key[p] \notin DOMAIN query_cache[i].cache

\* No call on record overlapped with another call.
NeverOverlapped == \A q \in Procs : hist[q].conc = {}

\* C6 (as claimed): after a request of this fingerprint completed with errors
\* and with no computation of the fingerprint in flight, a later identical
\* request sees a new uncached execution of its fingerprint. Stated for calls
\* made one after the other.
C6_LaterRequestExecutesAgain ==
    \A p \in Procs :
        Done(p) /\ hist[p].errBefore /\ NeverOverlapped => hist[p].newExec

\* C6 (amended): such a later request never receives the earlier error: its
\* result comes from an uncached execution begun after it started, unless it is
\* a success served from the Block-Bounded Cache.
C6_ErrorsNotRemembered ==
    \A p \in Procs :
        Done(p) /\ hist[p].errBefore
            => \/ hist[p].newExec /\ hist[p].origin \in {"own", "shared"}
               \/ hist[p].origin = "hit" /\ result[p].response.ok

C6_Witness ==
    \E p \in Procs :
        /\ Done(p) /\ hist[p].errBefore /\ hist[p].newExec
        /\ hist[p].origin = "own"

\* Is block_ptr the block of an entry of the buffer?
HasBlock(cache, block_ptr) == \E i \in 1..Len(cache) : cache[i].block = block_ptr

\* p's insertion step
Inserts(p) == pc[p] = "insert" /\ pc'[p] = "done"

\* A new block entry is put in front of the buffer less its back entry when
\* the buffer is at capacity, in front of the whole buffer otherwise.
C7_EvictStep ==
    \A p \in Procs :
        Inserts(p) /\ ~HasBlock(query_cache, req[p].block_ptr) /\ query_cache' # query_cache
            => /\ Head(query_cache').block = req[p].block_ptr
               /\ Tail(query_cache') =
                    IF Len(query_cache) = query_cache_blocks
                    THEN SubSeq(query_cache, 1, Len(query_cache) - 1)
                    ELSE query_cache

\* C7: the buffer never holds more entries than the capacity, and a new entry
\* created at capacity evicts exactly the back entry.
C7_CapacityAndEviction ==
    /\ [](Len(query_cache) <= query_cache_blocks)
    /\ [][C7_EvictStep]_vars

\* A call stored a new block at capacity: its block is the front entry.
C7_Witness ==
    \E p \in Procs :
        /\ Done(p) /\ hist[p].stored = "evicting"
        /\ query_cache_blocks = MaxCacheBlocks
        /\ Len(query_cache) = query_cache_blocks
        /\ Head(query_cache).block = req[p].block_ptr
        /\ \A i \in 2..Len(query_cache) :
            query_cache[i].block.number <= req[p].block_ptr.number

C8_InsertStep ==
    \A p \in Procs :
        Inserts(p) /\ ~HasBlock(query_cache, req[p].block_ptr)
            => /\ (query_cache # <<>>
                    /\ req[p].block_ptr.number < Head(query_cache).block.number)
                  => query_cache' = query_cache
               /\ query_cache' # query_cache
                  => \/ query_cache = <<>>
                     \/ req[p].block_ptr.number >= Head(query_cache).block.number

\* C8: a success for a block with no entry and a number below the front
\* entry's leaves the buffer unchanged; a new entry is created only when the
\* buffer is empty or the block's number is >= the front entry's.
C8_HistoricalBlockRejected == [][C8_InsertStep]_vars

C8_Witness ==
    \E p \in Procs :
        /\ Done(p) /\ hist[p].stored = "rejected"
        /\ result[p].response.ok
        /\ query_cache # <<>>
        /\ ~HasBlock(query_cache, req[p].block_ptr)
        /\ req[p].block_ptr.number < Head(query_cache).block.number

\* The request bypasses the caches as C9 words it.
Bypasses(r) ==
    \/ ~CACHE_ALL /\ r.schema_id \notin CACHED_SUBGRAPH_IDS
    \/ r.block_ptr = NoBlock
    \/ r.block_ptr.number = BLOCK_NUMBER_MAX

C9_State ==
    \A p \in Procs :
        req[p] # NoRequest /\ Bypasses(req[p])
            => /\ pc[p] \in {"exec", "done"}
               /\ key[p] = NoKey
               /\ p \notin lock.readers
               /\ lock.writer # p
               /\ \A k \in DOMAIN herd : p \notin herd[k].waiters
               /\ Done(p) => /\ result[p].variant = "NotCached"
                             /\ hist[p].origin = "own"
                             /\ hist[p].stored = "none"

C9_Step ==
    \A p \in Procs :
        pc'[p] # pc[p] /\ Bypasses(req'[p])
            => UNCHANGED <<query_cache, herd, lock>>

\* C9: a request for a schema without caching, without a block pointer or at
\* BLOCK_NUMBER_MAX runs the uncached execution once, returns NotCached, and
\* neither takes the cache lock nor changes either cache.
C9_BypassIsUncached == [](C9_State) /\ [][C9_Step]_vars

C9_Witness ==
    /\ \E p \in Procs :
        Done(p) /\ req[p].block_ptr = SentinelBlock /\ result[p].variant = "NotCached"
    /\ \E p \in Procs :
        Done(p) /\ req[p].schema_id \notin CACHED_SUBGRAPH_IDS
                /\ result[p].variant = "NotCached"

\* C10: with capacity 0 the buffer stays empty and no call is a hit, while the
\* eligible calls still go through the Herd Cache: one computation in flight
\* per fingerprint, whose result the joining calls share.
C10_ZeroCapacity ==
    query_cache_blocks = 0
        => /\ query_cache = <<>>
           /\ \A p \in Procs :
                /\ hist[p].origin # "hit"
                /\ pc[p] = "exec" /\ key[p] # NoKey => HerdInFlight(herd, key[p])
                /\ Done(p) /\ ConcreteCached(req[p])
                    => /\ result[p].variant = "Cached"
                       /\ hist[p].origin \in {"own", "shared"}
           /\ \A p, q \in Procs :
                p # q /\ pc[p] = "exec" /\ pc[q] = "exec" /\ key[p] # NoKey
                    => key[p] # key[q]

C10_Witness ==
    /\ query_cache_blocks = 0
    /\ \E p, q \in Procs :
        /\ Done(p) /\ Done(q)
        /\ key[p] = key[q]
        /\ hist[p].origin = "own" /\ hist[q].origin = "shared"
        /\ result[p].response.ok
        /\ result[q] = result[p]

\* C11 (as claimed): the returned MaybeCached is the Cached variant only when
\* the answer came from a cache hit, and the NotCached variant whenever the
\* call obtained the answer by running the uncached execution itself.
C11_VariantTellsOrigin ==
    \A p \in Procs :
        Done(p) =>
            /\ result[p].variant = "Cached" => hist[p].origin = "hit"
            /\ hist[p].origin = "own" => result[p].variant = "NotCached"

\* p holds the read guard or the write guard of QUERY_CACHE.
HoldsLock(p) == p \in lock.readers \/ lock.writer = p

\* C20: a request that is about to enter the Herd Cache, runs the uncached
\* execution or waits for a computation in flight holds neither guard; the
\* read guard is held during the lookup only and the write guard during the
\* insertion only; a request waiting for a guard waits for a request that is
\* in its lookup or insertion, which can always finish.
C20_NoWorkUnderLock ==
    /\ \A p \in Procs : pc[p] \in {"herd", "exec", "wait"} => ~HoldsLock(p)
    /\ \A p \in Procs : (p \in lock.readers) = (pc[p] = "lookup")
    /\ \A p \in Procs : (lock.writer = p) = (pc[p] = "insert")
    /\ lock.writer # 0 => lock.readers = {}
    /\ \A p \in Procs :
        pc[p] \in {"rdlock", "wrlock"}
            => \/ ENABLED (ReadLock(p) \/ WriteLock(p))
               \/ \E q \in Procs \ {p} : HoldsLock(q) /\ ENABLED (Lookup(q) \/ Insert(q))

\* One request inserts under the write guard while another, past its own
\* lookup, runs the uncached execution through the Herd Cache.
C20_Witness ==
    \E p, q \in Procs :
        /\ pc[p] = "exec" /\ key[p] # NoKey
        /\ pc[q] = "insert" /\ lock.writer = q

\* The errors of the groups a call has been through, in the order of the groups
RECURSIVE LogErrors(_)
LogErrors(log) == IF log = <<>> THEN <<>> ELSE Head(log).errors \o LogErrors(Tail(log))

\* The call has been through its groups in collection order, none left out,
\* up to the group idx points at
InCollectionOrder(f) ==
    /\ Len(f.log) = f.idx - 1
    /\ f.idx <= Len(f.grouped_field_set) + 1
    /\ \A i \in DOMAIN f.log : f.log[i].key = f.grouped_field_set[i].key

\* The deadline check of a call has recorded one Timeout, after the errors of
\* the groups before it, exactly if it has ended the loop
TimeoutRecorded(f) ==
    /\ InCollectionOrder(f)
    /\ f.errors = LogErrors(f.log) \o (IF f.halted THEN <<Timeout>> ELSE <<>>)
    /\ f.halted => deadline = "some" /\ expired /\ f.idx <= Len(f.grouped_field_set)
    /\ deadline = "none" => ~f.halted

\* C12 (amended): the deadline is checked before each group in collection
\* order; at the first check that finds it past one Timeout is recorded after
\* the errors of the earlier groups, no later group of the call is looked up
\* or executed (the call is the innermost one and can only return), and the
\* call returns its error list: the values of the earlier groups are not part
\* of the outcome.
C12_TimeoutEndsTheLoop ==
    /\ \A i \in DOMAIN frames :
        /\ TimeoutRecorded(frames[i])
        /\ frames[i].halted => i = Len(frames) /\ cstack = <<>>
    /\ returned.depth > 0 =>
        /\ TimeoutRecorded(returned.call)
        /\ returned.call.halted => returned.response = Err(returned.call.errors)

\* C12 (as claimed): the values the earlier groups produced are in the outcome
\* of a call that the deadline check has ended.
C12_ValuesRetainedInOutcome ==
    returned.depth > 0 /\ returned.call.halted =>
        \A k \in DOMAIN returned.call.result_map :
            /\ returned.response.ok
            /\ k \in DOMAIN returned.response.data
            /\ returned.response.data[k] = returned.call.result_map[k]

C12_Witness ==
    /\ returned.depth > 0
    /\ returned.call.halted
    /\ DOMAIN returned.call.result_map # {}
    /\ returned.call.idx < Len(returned.call.grouped_field_set)

\* The calls of execute_selection_set_to_map in progress, and the last that returned
ExecCallsSeen == {frames[i] : i \in DOMAIN frames} \cup {returned.call}

\* The field the i-th group of a call is executed for, and its declared type
GroupField(f, i) == Selection(f.grouped_field_set[i].fields[1])

GroupFieldType(f, i) == get_field(f.object_type, GroupField(f, i).name)

\* The i-th group of the call was resolved to Null for a field declared non-null
NullForNonNull(f, i) ==
    /\ GroupFieldType(f, i)[1] = "NonNull"
    /\ coerce_argument_values(GroupField(f, i)).ok
    /\ f.log[i].answer = Answer_Ok(Null)

\* The i-th group of the call is a field that ends in a value without a selection set
OwnValue(f, i) ==
    /\ GroupFieldType(f, i) # NoField
    /\ f.log[i].answer.ok
    /\ execute_field(GroupField(f, i), GroupFieldType(f, i), f.log[i].answer).tag = "ok"

\* C13: a field declared non-null that is resolved to Null yields the
\* NonNullError of that field and no value; its siblings are not marked as
\* failed: every sibling that ends in a value has its value in the result map
\* and no error, all groups of the selection set are executed unless the
\* deadline ends the loop, and when every sibling ends in a value the error
\* list the call returns is that one NonNullError.
C13_NonNullErrorSparesSiblings ==
    \A f \in ExecCallsSeen : \A i \in DOMAIN f.log :
        NullForNonNull(f, i) =>
            /\ f.log[i].errors = <<NonNullError(GroupField(f, i).position, GroupField(f, i).name)>>
            /\ f.log[i].key \notin DOMAIN f.result_map
            /\ \A j \in DOMAIN f.log \ {i} :
                OwnValue(f, j) =>
                    /\ f.log[j].errors = <<>>
                    /\ f.log[j].key \in DOMAIN f.result_map
                    /\ f.result_map[f.log[j].key] =
                        execute_field(GroupField(f, j), GroupFieldType(f, j), f.log[j].answer).value
            /\ (f = returned.call /\ ~f.halted) =>
                /\ Len(f.log) = Len(f.grouped_field_set)
                /\ (\A j \in DOMAIN f.log \ {i} : OwnValue(f, j)) =>
                        returned.response =
                            Err(<<NonNullError(GroupField(f, i).position, GroupField(f, i).name)>>)

C13_Witness ==
    /\ returned.depth > 0
    /\ ~returned.call.halted
    /\ \E i, j \in DOMAIN returned.call.log :
        /\ i < j
        /\ NullForNonNull(returned.call, i)
        /\ OwnValue(returned.call, j)
        /\ returned.response.errors = returned.call.log[i].errors

\* The selections a selection leads to: its selection set, or that of its fragment
SelectionsBelow(n) ==
    {Selection(n).selection_set[i] : i \in DOMAIN Selection(n).selection_set}
        \cup UNION {{f.selection_set[i] : i \in DOMAIN f.selection_set} :
                        f \in get_fragment(Selection(n).fragment_name)}

RECURSIVE SelectionsReachable(_)
SelectionsReachable(S) ==
    LET T == S \cup UNION {SelectionsBelow(n) : n \in S}
    IN  IF T = S THEN S ELSE SelectionsReachable(T)

\* The field selections of the query document that a directive takes out
SkippedFields ==
    {n \in SelectionsReachable(RootSelections) :
        /\ Selection(n).kind = "Field"
        /\ skip_selection(Selection(n)) \/ ~include_selection(Selection(n))}

\* The field selections in the groups of a grouped field set
RECURSIVE GroupedFields(_)
GroupedFields(grouped) ==
    IF grouped = <<>> THEN {}
    ELSE {Head(grouped).fields[i] : i \in DOMAIN Head(grouped).fields}
            \cup GroupedFields(Tail(grouped))

ErrorPositions(errors) == {errors[i].position : i \in DOMAIN errors}

\* C14: a field selection under @skip(if: true) or @include(if: false) is in
\* no group that collect_fields builds or returns, so it is never looked up,
\* resolved or completed; no error of a call or of the outcome is about it (at
\* its position), even where its field is unknown on the object type, and
\* every key of a result map is the response key of a field that was selected.
C14_SkippedFieldLeavesNoTrace ==
    /\ \A i \in DOMAIN cstack : GroupedFields(cstack[i].grouped_fields) \cap SkippedFields = {}
    /\ \A f \in ExecCallsSeen :
        /\ GroupedFields(f.grouped_field_set) \cap SkippedFields = {}
        /\ \A n \in SkippedFields : Selection(n).position \notin ErrorPositions(f.errors)
        /\ \A k \in DOMAIN f.result_map :
            \E n \in GroupedFields(f.grouped_field_set) \ SkippedFields :
                get_response_key(Selection(n)) = k
    /\ returned.depth > 0 =>
        \A n \in SkippedFields : Selection(n).position \notin ErrorPositions(returned.response.errors)

\* A selection set with a skipped unknown field and a field with a value has
\* returned the value alone
C14_Witness ==
    /\ returned.depth > 0
    /\ \E n \in SkippedFields :
        /\ n \in {returned.call.selection_sets[1][i] : i \in DOMAIN returned.call.selection_sets[1]}
        /\ get_field(returned.call.object_type, Selection(n).name) = NoField
    /\ returned.response.ok
    /\ Len(returned.call.log) = 1

\* The collect_fields calls that are in progress for the selection set of a
\* fragment definition are for different fragments, each visited by the call
\* it was made from and by every call below that one
NoFragmentTwiceOnBranch ==
    \A i \in DOMAIN cstack :
        cstack[i].fragment # "" =>
            /\ \A j \in DOMAIN cstack : j # i => cstack[j].fragment # cstack[i].fragment
            /\ \A j \in DOMAIN cstack : j >= i - 1 => cstack[i].fragment \in cstack[j].visited_fragments

\* C15: collect_fields terminates, with fragments that spread themselves
\* directly (S) or through a cycle (A and B): a fragment already visited on
\* the current recursion branch is never inlined again on that branch, the
\* recursion is no deeper than the fragments and the inline fragment allow,
\* and every collect_fields call in progress leads to its return.
C15_CollectFieldsTerminates ==
    /\ [](NoFragmentTwiceOnBranch /\ Len(cstack) <= Cardinality(DOMAIN Fragments) + 2)
    /\ (cstack # <<>>) ~> (cstack = <<>>)

\* The call for fragment B, made from the call for fragment A, has met the
\* spread of A and not inlined it
C15_Witness ==
    /\ Len(cstack) >= 3
    /\ Top(cstack).fragment = "B"
    /\ cstack[Len(cstack) - 1].fragment = "A"
    /\ "B...A" \in {Top(cstack).items[i] : i \in 1..(Top(cstack).i - 1)}

\* The fragments that spread themselves, directly or through other fragments
SelfSpreadingFragments ==
    {name \in DOMAIN Fragments :
        \E n \in SelectionsReachable({Fragments[name].selection_set[i] :
                                        i \in DOMAIN Fragments[name].selection_set}) :
            Selection(n).kind = "FragmentSpread" /\ Selection(n).fragment_name = name}

\* The field selections of the selection set of a fragment definition
FragmentFieldsOf(name) ==
    {Fragments[name].selection_set[i] : i \in DOMAIN Fragments[name].selection_set}
        \cap {n \in SelectionsReachable(RootSelections) : Selection(n).kind = "Field"}

\* How often a field selection is in the groups of a grouped field set
RECURSIVE Contributions(_, _)
Contributions(grouped, n) ==
    IF grouped = <<>> THEN 0
    ELSE Cardinality({i \in DOMAIN Head(grouped).fields : Head(grouped).fields[i] = n})
            + Contributions(Tail(grouped), n)

\* C16 (as claimed): in the grouped field set that a collect_fields call
\* returns, every field selection of a fragment that spreads itself is there at
\* most once, whatever spreads lead to the fragment.
C16_FragmentFieldsAtMostOnce ==
    \A i \in DOMAIN frames :
        \A name \in SelfSpreadingFragments : \A n \in FragmentFieldsOf(name) :
            Contributions(frames[i].grouped_field_set, n) <= 1

\* The declared type of the field of the i-th group without its non-null wrapper
GroupBaseType(f, i) ==
    IF GroupFieldType(f, i)[1] = "NonNull" THEN GroupFieldType(f, i)[2] ELSE GroupFieldType(f, i)

\* The i-th group of the call was resolved, for a field of an interface or
\* union type, to a value that resolve_abstract_type finds no object type for
AbstractUnresolved(f, i) ==
    /\ GroupBaseType(f, i)[1] = "Named"
    /\ get_named_type(GroupBaseType(f, i)[2]) \in {"Interface", "Union"}
    /\ f.log[i].answer.ok
    /\ f.log[i].answer.value # Null
    /\ resolve_abstract_type(GroupBaseType(f, i)[2], f.log[i].answer.value) = {}

\* C17: a field of an interface type whose non-null resolved value has no
\* concrete type yields exactly one AbstractTypeError naming the interface and
\* no value, and no selection set is ever executed for such a value: every
\* call made for a resolved object is made for the object type of that object.
\* (A field of a union type fails before completion, in resolve_field_value.)
C17_AbstractTypeErrorAlone ==
    \A f \in ExecCallsSeen :
        /\ \A i \in DOMAIN f.log :
            AbstractUnresolved(f, i) =>
                /\ f.log[i].errors = <<AbstractTypeError(GroupBaseType(f, i)[2])>>
                /\ f.log[i].key \notin DOMAIN f.result_map
        /\ f.prefetched_value # Null =>
                f.object_type \in ObjectTypes /\ f.prefetched_value.v = f.object_type

C17_Witness ==
    /\ returned.depth > 0
    /\ \E i \in DOMAIN returned.call.log : AbstractUnresolved(returned.call, i)
    /\ returned.response = Err(<<AbstractTypeError("Node")>>)

\* C18: a call of execute_selection_set_to_map returns success exactly when
\* its error list is empty and its result map is not; a success carries the
\* non-empty result map, a failure a non-empty error list: the errors of the
\* call, or the one EmptySelectionSet error of the object type when there are
\* neither errors nor values.
C18_SuccessIffNoErrorsAndSomeValue ==
    returned.depth > 0 =>
        LET f == returned.call
            response == returned.response
        IN  /\ response.ok = (f.errors = <<>> /\ DOMAIN f.result_map # {})
            /\ response.ok => response.data = f.result_map /\ DOMAIN response.data # {}
            /\ ~response.ok => response.errors # <<>>
            /\ (~response.ok /\ f.errors # <<>>) => response.errors = f.errors
            /\ (f.errors = <<>> /\ DOMAIN f.result_map = {}) =>
                    response = Err(<<EmptySelectionSet(f.object_type)>>)

\* A call has returned with neither errors nor values
C18_Witness ==
    /\ returned.depth > 0
    /\ returned.call.errors = <<>>
    /\ DOMAIN returned.call.result_map = {}
    /\ returned.response.errors = <<EmptySelectionSet("Query")>>

\* The errors the i-th group of a call has by itself, whatever the groups
\* before it came to; a group that ends in the execution of a selection set
\* has the errors that execution returns
GroupErrorsAreItsOwn(f, i) ==
    IF GroupFieldType(f, i) = NoField
    THEN f.log[i].errors =
            <<UnknownField(GroupField(f, i).position, f.object_type, GroupField(f, i).name)>>
    ELSE LET c == execute_field(GroupField(f, i), GroupFieldType(f, i), f.log[i].answer)
         IN  c.tag # "object" => f.log[i].errors = c.errors

\* C19: an error in a group (unknown field, argument, resolution or
\* completion error) never ends the loop: only a Timeout does. A call that no
\* Timeout has ended has been through every group before the one it is at, in
\* collection order, each with the errors of its own; its error list is the
\* concatenation of the errors of the groups in that order, nothing left out
\* and nothing removed, and it returns after the last group with that list.
C19_ErrorsAccumulate ==
    \A f \in ExecCallsSeen :
        /\ f.halted => f.errors # <<>> /\ f.errors[Len(f.errors)] = Timeout /\ expired
        /\ ~f.halted =>
            /\ Len(f.log) = f.idx - 1
            /\ \A i \in DOMAIN f.log :
                /\ f.log[i].key = f.grouped_field_set[i].key
                /\ GroupErrorsAreItsOwn(f, i)
            /\ f.errors = LogErrors(f.log)
            /\ (f = returned.call /\ returned.depth > 0) =>
                /\ Len(f.log) = Len(f.grouped_field_set)
                /\ f.errors # <<>> => returned.response = Err(LogErrors(f.log))

\* A call has returned the errors of two groups, the same error twice
C19_Witness ==
    /\ returned.depth > 0
    /\ ~returned.call.halted
    /\ Len(returned.call.log) = 2
    /\ returned.call.log[1].errors # <<>>
    /\ returned.call.log[2].errors = returned.call.log[1].errors
    /\ returned.response.errors = returned.call.log[1].errors \o returned.call.log[2].errors

RECURSIVE KeysInserted(_)
KeysInserted(log) ==
    IF log = <<>> THEN <<>>
    ELSE (IF Head(log).errors = <<>> THEN <<Head(log).key>> ELSE <<>>) \o KeysInserted(Tail(log))

\* C22 (as claimed): the mapping a call returns as its success yields its
\* response keys in the order in which their groups were collected and
\* executed.
C22_InsertionOrderPreserved ==
    (returned.depth > 0 /\ returned.response.ok) =>
        BTreeMapKeys(returned.response.data) = KeysInserted(returned.call.log)

\* The selections of a selection set that no directive takes out
Unskipped(selection_set) ==
    SelectSeq(selection_set,
              LAMBDA n : ~skip_selection(Selection(n)) /\ include_selection(Selection(n)))

\* The field selections a depth-first, in-order traversal of the selections
\* reaches, the fragments that apply to the object type inlined where they are
\* spread; visited holds the fragments spread so far on the branch
RECURSIVE Traversal(_, _, _)
Traversal(items, visited, object_type) ==
    IF items = <<>> THEN <<>>
    ELSE LET selection == Selection(Head(items))
         IN  CASE selection.kind = "Field" ->
                    <<Head(items)>> \o Traversal(Tail(items), visited, object_type)
               [] selection.kind = "FragmentSpread" ->
                    IF selection.fragment_name \in visited
                    THEN Traversal(Tail(items), visited, object_type)
                    ELSE LET seen == visited \cup {selection.fragment_name}
                             inlined ==
                                IF /\ selection.fragment_name \in DOMAIN Fragments
                                   /\ does_fragment_type_apply(object_type,
                                        Fragments[selection.fragment_name].type_condition)
                                THEN Traversal(
                                        Unskipped(Fragments[selection.fragment_name].selection_set),
                                        seen, object_type)
                                ELSE <<>>
                         IN  inlined \o Traversal(Tail(items), seen, object_type)
               [] selection.kind = "InlineFragment" ->
                    (IF selection.type_condition = ""
                        \/ does_fragment_type_apply(object_type, selection.type_condition)
                     THEN Traversal(Unskipped(selection.selection_set), visited, object_type)
                     ELSE <<>>)
                        \o Traversal(Tail(items), visited, object_type)

ResponseKeyOf(n) ==
    IF Selection(n).alias # "" THEN Selection(n).alias ELSE Selection(n).name

\* The response keys of a sequence of field selections, each once, in the
\* order of the first field of each
RECURSIVE KeysByFirstField(_)
KeysByFirstField(fields) ==
    IF fields = <<>> THEN <<>>
    ELSE LET before == KeysByFirstField(SubSeq(fields, 1, Len(fields) - 1))
             k == ResponseKeyOf(fields[Len(fields)])
         IN  IF \E i \in DOMAIN before : before[i] = k THEN before ELSE Append(before, k)

\* The groups of a sequence of field selections: for every key the fields of
\* that key, all of them and in their order
GroupsOf(fields) ==
    [i \in DOMAIN KeysByFirstField(fields) |->
        [key |-> KeysByFirstField(fields)[i],
         fields |-> SelectSeq(fields, LAMBDA n : ResponseKeyOf(n) = KeysByFirstField(fields)[i])]]

RECURSIVE Flatten(_)
Flatten(seqs) == IF seqs = <<>> THEN <<>> ELSE Head(seqs) \o Flatten(Tail(seqs))

\* The collect_fields call of the i-th call in progress has returned
Collected(i) == i < Len(frames) \/ cstack = <<>>

\* C23: what collect_fields returns for the selection sets of a call are the
\* groups of the traversal of those selection sets: the response keys (alias,
\* else name) in the order of the first field of each in the traversal, and
\* under each key every field selection of that key as often as the traversal
\* reaches it and in the order of the traversal.
C23_CollectKeepsOrderAndFields ==
    \A i \in DOMAIN frames :
        Collected(i) =>
            frames[i].grouped_field_set =
                GroupsOf(Traversal(Flatten([j \in DOMAIN frames[i].selection_sets |->
                                               Unskipped(frames[i].selection_sets[j])]),
                                   {}, frames[i].object_type))

\* collect_fields has returned a key with two fields under it, one of them
\* from a fragment, and a key whose first field is in a fragment
C23_Witness ==
    \E i \in DOMAIN frames :
        /\ Collected(i)
        /\ Len(frames[i].grouped_field_set) >= 2
        /\ frames[i].grouped_field_set[1].fields = <<"name", "A.name">>
        /\ frames[i].grouped_field_set[2].fields = <<"B.id">>

\* Another group of the call than the one of response_key has a field of the name
OtherKeySharesName(f, response_key, name) ==
    \E j \in DOMAIN f.grouped_field_set :
        /\ f.grouped_field_set[j].key # response_key
        /\ \E k \in DOMAIN f.grouped_field_set[j].fields :
                Selection(f.grouped_field_set[j].fields[k]).name = name

\* The field values that were taken from an entry keyed by the field name
TakenByName(f) ==
    {i \in DOMAIN f.received :
        /\ f.received[i].how # "prefetch"
        /\ NameEntry(f.received[i].name) \in DOMAIN f.received[i].before}

\* C24: for a group with no "prefetch:<responseKey>" entry, the entry keyed by
\* the field name is removed from the pre-fetched object if and only if no
\* other response key of the selection set has a field of that name, and is
\* cloned and left in place otherwise.
C24_RemovedIffNoOtherKey ==
    \A f \in ExecCallsSeen : \A i \in TakenByName(f) :
        /\ (f.received[i].how = "remove")
                <=> ~OtherKeySharesName(f, f.received[i].key, f.received[i].name)
        /\ f.received[i].how = "clone"
                => NameEntry(f.received[i].name) \in DOMAIN f.prefetched_object

\* The response keys of one field name all receive the pre-fetched value of
\* that name.
AliasesReceiveSameValue ==
    \A f \in ExecCallsSeen : \A i, j \in DOMAIN f.received :
        /\ f.received[i].name = f.received[j].name
        /\ f.received[i].how # "prefetch"
        /\ f.received[j].how # "prefetch"
        => f.received[i].value = f.received[j].value

\* The response keys of a sequence of fields
KeysOf(fields) == {get_response_key(Selection(fields[i])) : i \in DOMAIN fields}

\* The root selection set has been split into the two passes' selection sets
RootIsSplit == root.pc \notin {"none", "collect"}

\* The introspection pass has returned a mapping that is about to be merged
\* into the values of the data pass (line 263)
AboutToMerge == root.pc = "intro" /\ frames = <<>> /\ outcome.ok

\* C25: every response key of the root selection set is in exactly one of the
\* data pass and the introspection pass, so the mappings of the two passes
\* have no key in common and the merge overwrites no value of the data pass.
C25_PassesShareNoKey ==
    /\ RootIsSplit =>
        /\ KeysOf(root.data_set) \cap KeysOf(root.intro_set) = {}
        /\ KeysOf(root.data_set) \cup KeysOf(root.intro_set) = KeysOf(Traversal(Unskipped(query), {}, "Query"))
        /\ DOMAIN root.values \subseteq
                IF root.pc \in {"return", "done"}
                THEN KeysOf(root.data_set) \cup KeysOf(root.intro_set)
                ELSE KeysOf(root.data_set)
    /\ AboutToMerge =>
        /\ DOMAIN outcome.data \subseteq KeysOf(root.intro_set)
        /\ DOMAIN root.values \cap DOMAIN outcome.data = {}

\* Both passes ran and the merge is about to happen with values on both sides
C25_Witness ==
    /\ AboutToMerge
    /\ DOMAIN root.values # {}
    /\ DOMAIN outcome.data # {}

\* A data field and an introspection field of one response key were
\* collected, and the root execution has returned a value for the key
C25_WitnessOneKey ==
    /\ root.pc = "done"
    /\ root.response.ok
    /\ \E i, j \in DOMAIN query :
        /\ get_response_key(Selection(query[i])) = get_response_key(Selection(query[j]))
        /\ is_introspection_field(Selection(query[i]).name)
        /\ ~is_introspection_field(Selection(query[j]).name)
        /\ get_response_key(Selection(query[i])) \in DOMAIN root.response.data

\* The number of times step occurs in the trace of the root execution
RECURSIVE Count(_, _)
Count(trace, step) ==
    IF trace = <<>> THEN 0
    ELSE (IF Head(trace) = step THEN 1 ELSE 0) + Count(Tail(trace), step)

\* The position of the first occurrence of a step in the trace, 0 if there is none
First(trace, step) ==
    IF \E i \in DOMAIN trace : trace[i] = step
    THEN CHOOSE i \in DOMAIN trace : trace[i] = step /\ \A j \in 1..(i - 1) : trace[j] # step
    ELSE 0

\* A field of the data pass is being, or has been, executed
DataFieldResolved ==
    \/ Count(root.trace, "data returned") > 0
    \/ root.pc = "data" /\ frames # <<>> /\ frames[1].log # <<>>

C26_WitnessBothPasses ==
    /\ root.pc = "done"
    /\ root.trace = <<"prefetch", "data", "data returned", "intro", "intro returned">>
    /\ root.response.ok

\* C27: the root execution never returns a successful empty mapping: a root
\* selection set that produces no field makes it return an error.
C27_NoEmptySuccess ==
    root.pc = "done" /\ root.response.ok => DOMAIN root.response.data # {}

\* C28: a call returns a Timeout error only if it has a deadline of its own
\* and the error comes from its own execution; a call with no deadline never
\* receives the Timeout of another request of the same fingerprint.
C28_TimeoutIsOwn ==
    \A p \in Procs :
        Done(p) /\ ~result[p].response.ok /\ result[p].response.errors = <<"Timeout">>
            => req[p].deadline = "some" /\ hist[p].origin = "own"

\* C29: the block numbers of the entries of the Block-Bounded Cache never
\* increase from front to back: the front entry has the highest number and
\* the back entry, the one evicted at capacity, the lowest.
C29_BlockNumbersNeverIncrease ==
    \A i, j \in 1..Len(query_cache) :
        i < j => query_cache[i].block.number >= query_cache[j].block.number

\* Two calls that overlapped have stored successes for blocks of different
\* numbers: the buffer is full, the higher block in front
C29_Witness ==
    /\ Len(query_cache) = MaxCacheBlocks
    /\ Head(query_cache).block.number > query_cache[Len(query_cache)].block.number
    /\ \E p, q \in Procs :
        /\ Done(p) /\ Done(q)
        /\ q \in hist[p].conc
        /\ hist[p].stored = "pushed" /\ hist[q].stored = "pushed"
        /\ Head(query_cache).block = req[p].block_ptr
        /\ query_cache[Len(query_cache)].block = req[q].block_ptr

\* The blocks of the entries, front to back
Blocks(cache) == [i \in 1..Len(cache) |-> cache[i].block]

\* A success for a block that has an entry goes into that entry's map: no
\* entry is created, moved or evicted
C30_AddStep ==
    \A p \in Procs :
        Inserts(p) /\ HasBlock(query_cache, req[p].block_ptr)
            => /\ Blocks(query_cache') = Blocks(query_cache)
               /\ key[p] \in DOMAIN query_cache'[FindBlock(query_cache, req[p].block_ptr)].cache
               /\ \A i \in 1..Len(query_cache) :
                    i # FindBlock(query_cache, req[p].block_ptr)
                        => query_cache'[i] = query_cache[i]

\* C30: the block pointers of the entries of the Block-Bounded Cache are
\* pairwise distinct, and a success for a block that has an entry is added to
\* that entry without a new entry, a reordering or an eviction.
C30_BlockPointersDistinct ==
    /\ [](\A i, j \in 1..Len(query_cache) :
            i # j => query_cache[i].block # query_cache[j].block)
    /\ [][C30_AddStep]_vars

\* Two calls for one block both missed the lookup before either inserted;
\* both have inserted, and the buffer holds one entry of the block with both
\* fingerprints' responses
C30_Witness ==
    \E p, q \in Procs :
        /\ p # q
        /\ Done(p) /\ Done(q)
        /\ req[p].block_ptr = req[q].block_ptr
        /\ key[p] # key[q]
        /\ q \in hist[p].conc
        /\ hist[p].noEntry /\ hist[q].noEntry
        /\ hist[p].origin = "own" /\ hist[q].origin = "own"
        /\ {hist[p].stored, hist[q].stored} = {"pushed", "added"}
        /\ Len(query_cache) = 1
        /\ DOMAIN query_cache[1].cache = {key[p], key[q]}

====
